---- MODULE Spec2Model ----
(***************************************************************************)
(* PitchGuard: the encrypted-submission analysis pipeline.                 *)
(*                                                                         *)
(*   src/src/utils/encryption.ts            client-side encryptPitch       *)
(*   src/src/app/api/analyze-pitch/route.ts server-side POST /score        *)
(*                                                                         *)
(* Representation of the program's values:                                 *)
(*   - a JavaScript string that is plaintext is a sequence of UTF-16 code  *)
(*     units (naturals);                                                   *)
(*   - a byte buffer is a sequence of naturals in 0..255;                  *)
(*   - wire text (base64, model names, timestamps, serialized scores) is   *)
(*     a sequence of one-character strings;                                *)
(*   - a score is counted in tenths (8.5 is 85).                           *)
(* AES-256-GCM and SHA-256 are library code: the cipher is a counter-mode  *)
(* keystream XOR with a 16-byte tag over key, IV and ciphertext, the hash  *)
(* is collision-free (it keeps its pre-image).                             *)
(***************************************************************************)
EXTENDS Integers, Sequences, FiniteSets, TLC

(***************************************************************************)
(* Program constants                                                       *)
(***************************************************************************)
MAX_PITCH_LENGTH == 10000
MIN_PITCH_LENGTH == 50
REQUEST_TIMEOUT == 30000
KEY_LENGTH == 32
IV_LENGTH == 12
TAG_LENGTH == 16
MOCK_BUCKET_MS == 3600000

(***************************************************************************)
(* Bounds of the model                                                     *)
(***************************************************************************)
\* Number of distinct keys (and of distinct IVs) the random generator draws.
NumKeys == 2
\* Number of clock readings after the first one.
MaxTicks == 2

(***************************************************************************)
(* Sequences                                                               *)
(***************************************************************************)
Range(s) == {s[i] : i \in 1..Len(s)}

\* The sequence f, with every element computed once.
Computed(f) == f \o <<>>

\* The concatenation chunks[lo] \o ... \o chunks[hi].
RECURSIVE Flatten(_, _, _)
Flatten(chunks, lo, hi) ==
  IF lo > hi THEN <<>>
  ELSE IF lo = hi THEN chunks[lo]
  ELSE LET mid == (lo + hi) \div 2
       IN Flatten(chunks, lo, mid) \o Flatten(chunks, mid + 1, hi)

\* Buffer.slice(from, to): 0-based, end-exclusive; a negative index counts
\* from the end; both are clamped to the buffer.
Slice(buf, from, to) ==
  LET n == Len(buf)
      clamp(i) == IF i < 0 THEN (IF n + i < 0 THEN 0 ELSE n + i)
                  ELSE IF i > n THEN n ELSE i
      lo == clamp(from)
      hi == clamp(to)
  IN IF hi <= lo THEN <<>> ELSE SubSeq(buf, lo + 1, hi)

\* s occurs in t as a contiguous run.
IsSubstring(s, t) ==
  \E k \in 0..(Len(t) - Len(s)) : \A i \in 1..Len(s) : t[k + i] = s[i]

(***************************************************************************)
(* Base64: btoa on the client, Buffer.from(text, 'base64') on the server   *)
(***************************************************************************)
B64Alphabet ==
  << "A", "B", "C", "D", "E", "F", "G", "H", "I", "J", "K", "L", "M",
     "N", "O", "P", "Q", "R", "S", "T", "U", "V", "W", "X", "Y", "Z",
     "a", "b", "c", "d", "e", "f", "g", "h", "i", "j", "k", "l", "m",
     "n", "o", "p", "q", "r", "s", "t", "u", "v", "w", "x", "y", "z",
     "0", "1", "2", "3", "4", "5", "6", "7", "8", "9", "+", "/" >>

B64Chars == Range(B64Alphabet) \cup {"-", "_"}

\* The 6-bit value of a base64 character (Node also reads the URL-safe pair).
B64Values ==
  [c \in B64Chars |->
     IF c = "-" THEN 62
     ELSE IF c = "_" THEN 63
     ELSE (CHOOSE i \in 1..64 : B64Alphabet[i] = c) - 1]

B64Value(c) == B64Values[c]

\* arrayBufferToBase64: standard base64 with '=' padding.
arrayBufferToBase64(bytes) ==
  LET n == Len(bytes)
      byteAt(i) == IF i <= n THEN bytes[i] ELSE 0
      charAt(p) ==
        LET g == (p - 1) \div 4
            k == (p - 1) % 4
            v == byteAt(3 * g + 1) * 65536 + byteAt(3 * g + 2) * 256
                   + byteAt(3 * g + 3)
        IN IF k = 2 /\ 3 * g + 2 > n THEN "="
           ELSE IF k = 3 /\ 3 * g + 3 > n THEN "="
           ELSE B64Alphabet[((v \div (64 ^ (3 - k))) % 64) + 1]
  IN Computed([p \in 1..(4 * ((n + 2) \div 3)) |-> charAt(p)])

\* Buffer.from(text, 'base64'): decoding stops at the first '=', characters
\* outside the alphabet are skipped, a trailing partial group yields the
\* bytes it fully determines. It never throws on a string.
BufferFromBase64(text) ==
  LET upto ==
        IF \E i \in 1..Len(text) : text[i] = "="
          THEN (CHOOSE i \in 1..Len(text) :
                  text[i] = "=" /\ \A j \in 1..(i - 1) : text[j] # "=") - 1
          ELSE Len(text)
      bytes(vals) ==
        LET m == Len(vals)
            n == 3 * (m \div 4)
                   + (IF m % 4 = 2 THEN 1 ELSE IF m % 4 = 3 THEN 2 ELSE 0)
            valAt(i) == IF i <= m THEN vals[i] ELSE 0
            byteAt(q) ==
              LET g == (q - 1) \div 3
                  k == (q - 1) % 3
                  v == valAt(4 * g + 1) * 262144 + valAt(4 * g + 2) * 4096
                         + valAt(4 * g + 3) * 64 + valAt(4 * g + 4)
              IN (v \div (256 ^ (2 - k))) % 256
        IN Computed([q \in 1..n |-> byteAt(q)])
      values(clean) ==
        bytes(Computed([i \in 1..Len(clean) |-> B64Value(clean[i])]))
  IN values(SelectSeq(SubSeq(text, 1, upto), LAMBDA c : c \in B64Chars))

(***************************************************************************)
(* UTF-8: TextEncoder.encode on the client, the decipher's 'utf8' output   *)
(* encoding on the server                                                  *)
(***************************************************************************)
IsHighSurrogate(u) == u >= 55296 /\ u <= 56319
IsLowSurrogate(u) == u >= 56320 /\ u <= 57343

Utf8OfCodePoint(cp) ==
  IF cp < 128 THEN <<cp>>
  ELSE IF cp < 2048 THEN <<192 + (cp \div 64), 128 + (cp % 64)>>
  ELSE IF cp < 65536
    THEN <<224 + (cp \div 4096), 128 + ((cp \div 64) % 64), 128 + (cp % 64)>>
  ELSE <<240 + (cp \div 262144), 128 + ((cp \div 4096) % 64),
         128 + ((cp \div 64) % 64), 128 + (cp % 64)>>

\* TextEncoder.encode: a surrogate pair is one code point, an unpaired
\* surrogate is encoded as U+FFFD.
TextEncoderEncode(s) ==
  LET n == Len(s)
      chunk(i) ==
        IF IsHighSurrogate(s[i]) /\ i < n /\ IsLowSurrogate(s[i + 1])
          THEN Utf8OfCodePoint(65536 + (s[i] - 55296) * 1024
                                 + (s[i + 1] - 56320))
        ELSE IF IsLowSurrogate(s[i]) /\ i > 1 /\ IsHighSurrogate(s[i - 1])
          THEN <<>>
        ELSE IF IsHighSurrogate(s[i]) \/ IsLowSurrogate(s[i])
          THEN <<239, 191, 189>>
        ELSE Utf8OfCodePoint(s[i])
      chunks == Computed([i \in 1..n |-> chunk(i)])
  IN Flatten(chunks, 1, n)

\* Decoding of bytes as UTF-8 into code units; a byte that belongs to no
\* well-formed sequence becomes U+FFFD.
Utf8Decode(b) ==
  LET n == Len(b)
      IsCont(i) == i <= n /\ b[i] >= 128 /\ b[i] < 192
      cp2(i) == (b[i] - 192) * 64 + (b[i + 1] - 128)
      cp3(i) == (b[i] - 224) * 4096 + (b[i + 1] - 128) * 64 + (b[i + 2] - 128)
      cp4(i) == (b[i] - 240) * 262144 + (b[i + 1] - 128) * 4096
                  + (b[i + 2] - 128) * 64 + (b[i + 3] - 128)
      seqLen(i) ==
        IF b[i] < 128 THEN 1
        ELSE IF b[i] >= 194 /\ b[i] <= 223 /\ IsCont(i + 1) THEN 2
        ELSE IF b[i] >= 224 /\ b[i] <= 239 /\ IsCont(i + 1) /\ IsCont(i + 2)
                /\ cp3(i) >= 2048
                /\ ~IsHighSurrogate(cp3(i)) /\ ~IsLowSurrogate(cp3(i)) THEN 3
        ELSE IF b[i] >= 240 /\ b[i] <= 244 /\ IsCont(i + 1) /\ IsCont(i + 2)
                /\ IsCont(i + 3) /\ cp4(i) >= 65536 /\ cp4(i) <= 1114111 THEN 4
        ELSE 0
      consumed(i) == \E d \in 1..3 : i - d >= 1 /\ seqLen(i - d) > d
      units(i) ==
        IF seqLen(i) = 1 THEN <<b[i]>>
        ELSE IF seqLen(i) = 2 THEN <<cp2(i)>>
        ELSE IF seqLen(i) = 3 THEN <<cp3(i)>>
        ELSE IF seqLen(i) = 4
          THEN <<55296 + ((cp4(i) - 65536) \div 1024),
                 56320 + ((cp4(i) - 65536) % 1024)>>
        ELSE IF consumed(i) THEN <<>>
        ELSE <<65533>>
      chunks == Computed([i \in 1..n |-> units(i)])
  IN Flatten(chunks, 1, n)

(***************************************************************************)
(* AES-256-GCM (library): counter-mode keystream and authentication tag    *)
(***************************************************************************)
RECURSIVE XorBits(_, _, _)
XorBits(a, b, k) ==
  IF k = 0 THEN 0
  ELSE ((a + b) % 2) + 2 * XorBits(a \div 2, b \div 2, k - 1)

\* XOR of two half-bytes, tabulated; XOR of two bytes.
XorNibbles ==
  Computed([a \in 1..16 |->
              Computed([b \in 1..16 |-> XorBits(a - 1, b - 1, 4)])])
Xor(a, b) ==
  16 * XorNibbles[(a \div 16) + 1][(b \div 16) + 1]
    + XorNibbles[(a % 16) + 1][(b % 16) + 1]

KeyStreamByte(key, iv, i) ==
  (key[((i - 1) % Len(key)) + 1] * 7 + iv[((i - 1) % Len(iv)) + 1] * 13
     + i * 31) % 256

\* Counter mode: encryption and decryption are the same keystream XOR.
GcmCrypt(key, iv, data) ==
  Computed([i \in 1..Len(data) |-> Xor(data[i], KeyStreamByte(key, iv, i))])

\* Sum over i in lo..hi of (i + m) * (x[i] + 1), modulo the prime 65521.
RECURSIVE WeightedSum(_, _, _, _)
WeightedSum(x, m, lo, hi) ==
  IF lo > hi THEN 0
  ELSE IF lo = hi THEN ((lo + m) * (x[lo] + 1)) % 65521
  ELSE LET mid == (lo + hi) \div 2
       IN (WeightedSum(x, m, lo, mid) + WeightedSum(x, m, mid + 1, hi))
            % 65521

\* The 16-byte tag authenticating key, IV and ciphertext: two position-
\* weighted checksums of two bytes each, and twelve bytes mixing them.
GcmTag(key, iv, ct) ==
  LET tag(t1, t2) ==
        Computed([j \in 1..TAG_LENGTH |->
                    IF j = 1 THEN t1 \div 256
                    ELSE IF j = 2 THEN t1 % 256
                    ELSE IF j = 3 THEN t2 \div 256
                    ELSE IF j = 4 THEN t2 % 256
                    ELSE (t1 + j * t2) % 256])
      sums(x) == tag(WeightedSum(x, 1, 1, Len(x)), WeightedSum(x, 2, 1, Len(x)))
  IN sums(key \o iv \o ct)

\* SubtleEncrypt writing the tag in front of the ciphertext.
SubtleEncryptTagFirst(key, iv, data) ==
  LET seal(ct) == GcmTag(key, iv, ct) \o ct
  IN seal(GcmCrypt(key, iv, data))

\* crypto.subtle.encrypt({name: 'AES-GCM', iv}, key, data): the ciphertext
\* with the 16-byte tag appended.
SubtleEncrypt(key, iv, data) ==
  LET seal(ct) == ct \o GcmTag(key, iv, ct)
  IN seal(GcmCrypt(key, iv, data))

\* crypto.createDecipheriv('aes-256-gcm', key, iv) with setAuthTag, update and
\* final: the plaintext bytes, or a throw when the tag has no valid length or
\* does not verify. A tag shorter than 16 bytes is compared with the
\* leading bytes of the expected one.
ValidTagLengths == {4, 8, 12, 13, 14, 15, 16}

\* DecipherGcm without the verification of the tag.
DecipherGcmUnverified(key, iv, encryptedData, authTag) ==
  [ok |-> TRUE, bytes |-> GcmCrypt(key, iv, encryptedData)]

DecipherGcm(key, iv, encryptedData, authTag) ==
  IF Len(authTag) \notin ValidTagLengths
    THEN [ok |-> FALSE, error |-> "Invalid authentication tag length"]
  ELSE IF authTag # SubSeq(GcmTag(key, iv, encryptedData), 1, Len(authTag))
    THEN [ok |-> FALSE,
          error |-> "Unsupported state or unable to authenticate data"]
  ELSE [ok |-> TRUE, bytes |-> GcmCrypt(key, iv, encryptedData)]

(***************************************************************************)
(* Client: encryptPitch                                                    *)
(***************************************************************************)
\* The keys and IVs the random generators can return.
KeyOf(id) == Computed([i \in 1..KEY_LENGTH |-> (id * 37 + i * 11) % 256])
IvOf(id) == Computed([i \in 1..IV_LENGTH |-> (id * 91 + i * 5) % 256])
KeySpace == {KeyOf(id) : id \in 1..NumKeys}
IvSpace == {IvOf(id) : id \in 1..NumKeys}

\* encryptPitch with the key and IV its generators returned.
encryptPitch(pitch, key, iv) ==
  [encryptedData |->
     arrayBufferToBase64(SubtleEncrypt(key, iv, TextEncoderEncode(pitch))),
   key |-> arrayBufferToBase64(key),
   iv |-> arrayBufferToBase64(iv)]

(***************************************************************************)
(* Server: sanitizeInput, decryptPitchData                                 *)
(***************************************************************************)
\* The code units of < > & " and '.
UnsafeChars == {60, 62, 38, 34, 39}

\* The code units String.prototype.trim removes.
WhiteSpace ==
  {9, 10, 11, 12, 13, 32, 160, 5760, 8232, 8233, 8239, 8287, 12288, 65279}
    \cup (8192..8202)

\* The first position from i on, and the last position up to i, that holds
\* no white space (Len + 1 and 0 when there is none).
RECURSIVE FirstKept(_, _)
FirstKept(text, i) ==
  IF i > Len(text) \/ text[i] \notin WhiteSpace THEN i
  ELSE FirstKept(text, i + 1)

RECURSIVE LastKept(_, _)
LastKept(text, i) ==
  IF i < 1 \/ text[i] \notin WhiteSpace THEN i
  ELSE LastKept(text, i - 1)

Trim(text) == SubSeq(text, FirstKept(text, 1), LastKept(text, Len(text)))

\* sanitizeInput without the replacement of the two quote characters.
sanitizeInputKeepingQuotes(text) ==
  LET bound(sanitized) ==
        IF Len(sanitized) > MAX_PITCH_LENGTH
          THEN SubSeq(sanitized, 1, MAX_PITCH_LENGTH)
          ELSE Trim(sanitized)
  IN bound(SelectSeq(text, LAMBDA c : c \notin {60, 62, 38}))

sanitizeInput(text) ==
  LET bound(sanitized) ==
        IF Len(sanitized) > MAX_PITCH_LENGTH
          THEN SubSeq(sanitized, 1, MAX_PITCH_LENGTH)
          ELSE Trim(sanitized)
  IN bound(SelectSeq(text, LAMBDA c : c \notin UnsafeChars))

\* A console call: the message and the value passed with it.
LogEntry(msg, arg) == [msg |-> msg, arg |-> arg]
NoArg == [t |-> "none"]
ErrorArg(message) == [t |-> "error", message |-> message]

\* decryptPitchData creating the decipher and verifying the tag before it
\* looks at the lengths of key and IV.
decryptPitchDataDecipherFirst(ciphertext_b64, key_b64, iv_b64) ==
  LET caught(thrown) ==
        [ok |-> FALSE, text |-> <<>>,
         error |-> "Failed to decrypt pitch data",
         logs |-> <<LogEntry("Decryption failed:", ErrorArg(thrown))>>]
      validated(decrypted) ==
        IF Len(decrypted) < MIN_PITCH_LENGTH
          THEN caught("Pitch content too short")
          ELSE [ok |-> TRUE, text |-> decrypted, logs |-> <<>>]
      finished(key, iv, plain) ==
        IF ~plain.ok THEN caught(plain.error)
        ELSE IF Len(key) # KEY_LENGTH THEN caught("Invalid key length")
        ELSE IF Len(iv) # IV_LENGTH THEN caught("Invalid IV length")
        ELSE validated(Utf8Decode(plain.bytes))
      try(ciphertext, key, iv) ==
        finished(key, iv,
                 DecipherGcm(key, iv, Slice(ciphertext, 0, 0 - TAG_LENGTH),
                             Slice(ciphertext, 0 - TAG_LENGTH,
                                   Len(ciphertext))))
  IN try(BufferFromBase64(ciphertext_b64), BufferFromBase64(key_b64),
         BufferFromBase64(iv_b64))

\* decryptPitchData: [ok, text] on success; on any throw inside the try the
\* catch logs the error and throws the generic one.
decryptPitchData(ciphertext_b64, key_b64, iv_b64) ==
  LET caught(thrown) ==
        [ok |-> FALSE, text |-> <<>>,
         error |-> "Failed to decrypt pitch data",
         logs |-> <<LogEntry("Decryption failed:", ErrorArg(thrown))>>]
      validated(decrypted) ==
        IF Len(decrypted) < MIN_PITCH_LENGTH
          THEN caught("Pitch content too short")
          ELSE [ok |-> TRUE, text |-> decrypted, logs |-> <<>>]
      finished(plain) ==
        IF ~plain.ok THEN caught(plain.error)
        ELSE validated(Utf8Decode(plain.bytes))
      try(ciphertext, key, iv) ==
        IF Len(key) # KEY_LENGTH THEN caught("Invalid key length")
        ELSE IF Len(iv) # IV_LENGTH THEN caught("Invalid IV length")
        ELSE finished(DecipherGcm(key, iv,
                                  Slice(ciphertext, 0, 0 - TAG_LENGTH),
                                  Slice(ciphertext, 0 - TAG_LENGTH,
                                        Len(ciphertext))))
  IN try(BufferFromBase64(ciphertext_b64), BufferFromBase64(key_b64),
         BufferFromBase64(iv_b64))

(***************************************************************************)
(* Wire text                                                               *)
(***************************************************************************)
Digits == <<"0", "1", "2", "3", "4", "5", "6", "7", "8", "9">>

\* The characters of the score keys in code-unit order ('_' is 95).
KeyCharOrder ==
  << "_", "a", "b", "c", "d", "e", "f", "g", "h", "i", "j", "k", "l", "m",
     "n", "o", "p", "q", "r", "s", "t", "u", "v", "w", "x", "y", "z" >>

CharRank(c) == CHOOSE i \in 1..Len(KeyCharOrder) : KeyCharOrder[i] = c

\* Number.prototype.toString of a natural.
RECURSIVE NatToText(_)
NatToText(n) ==
  IF n < 10 THEN <<Digits[n + 1]>>
  ELSE NatToText(n \div 10) \o <<Digits[(n % 10) + 1]>>

\* The JSON text of a number given in tenths: 85 is 8.5, 70 is 7, -5 is -0.5.
JsonNumber(tenths) ==
  LET a == IF tenths < 0 THEN 0 - tenths ELSE tenths
      sign == IF tenths < 0 THEN <<"-">> ELSE <<>>
  IN sign \o NatToText(a \div 10)
       \o (IF a % 10 = 0 THEN <<>> ELSE <<".">> \o NatToText(a % 10))

\* a < b in the order Array.prototype.sort uses for strings.
RECURSIVE TextLess(_, _)
TextLess(a, b) ==
  IF b = <<>> THEN FALSE
  ELSE IF a = <<>> THEN TRUE
  ELSE IF Head(a) = Head(b) THEN TextLess(Tail(a), Tail(b))
  ELSE CharRank(Head(a)) < CharRank(Head(b))

\* Array.prototype.sort of distinct texts.
SortTexts(ts) ==
  LET n == Len(ts)
      rank(i) == Cardinality({j \in 1..n : TextLess(ts[j], ts[i])}) + 1
  IN Computed([r \in 1..n |-> ts[CHOOSE i \in 1..n : rank(i) = r]])

K_clarity ==
  <<"c", "l", "a", "r", "i", "t", "y">>
K_originality ==
  <<"o", "r", "i", "g", "i", "n", "a", "l", "i", "t", "y">>
K_team_strength ==
  <<"t", "e", "a", "m", "_", "s", "t", "r", "e", "n", "g", "t", "h">>
K_market_fit ==
  <<"m", "a", "r", "k", "e", "t", "_", "f", "i", "t">>
PRIMARY_MODEL ==
  <<"m", "i", "s", "t", "r", "a", "l", "a", "i", "/", "m", "i", "s", "t",
  "r", "a", "l", "-", "s", "m", "a", "l", "l", "-", "2", "4", "0", "9">>

(***************************************************************************)
(* Scores, the mock scorer, the receipt                                    *)
(***************************************************************************)
requiredKeys == <<K_clarity, K_originality, K_team_strength, K_market_fit>>

\* An object literal with the four score fields, in the order written.
ScoresObject(clarity, originality, team_strength, market_fit) ==
  [keys |-> requiredKeys,
   val |-> (K_clarity :> clarity) @@ (K_originality :> originality)
             @@ (K_team_strength :> team_strength)
             @@ (K_market_fit :> market_fit)]

\* The fractional part of Math.sin(seed) * 10000, in millionths, for the
\* seeds the model's clock reaches.
SinFrac ==
  << 0, 709848, 974268, 200080, 975046, 757253, 845018, 865987,
     582466, 184852, 788891, 97934, 270819, 670368, 73556, 878401 >>

random(seed) == SinFrac[seed + 1]

\* Math.round of a value given in millionths.
MathRound(micro) == (micro + 500000) \div 1000000

\* getMockScores seeded by the reading of the clock within the hour.
getMockScoresByReading(now) ==
  LET seed == (now \div 1500) % 4
  IN ScoresObject(MathRound(random(seed) * 30 + 70000000),
                  MathRound(random(seed + 1) * 25 + 65000000),
                  MathRound(random(seed + 2) * 25 + 60000000),
                  MathRound(random(seed + 3) * 27 + 65000000))

\* getMockScores at clock reading now (milliseconds).
getMockScores(now) ==
  LET seed == now \div MOCK_BUCKET_MS
  IN ScoresObject(MathRound(random(seed) * 30 + 70000000),
                  MathRound(random(seed + 1) * 25 + 65000000),
                  MathRound(random(seed + 2) * 25 + 60000000),
                  MathRound(random(seed + 3) * 27 + 65000000))

\* JSON.stringify(scores, keys): the listed keys the object has, in the
\* order listed.
JsonStringify(scores, keys) ==
  LET present == SelectSeq(keys, LAMBDA k : k \in Range(scores.keys))
      member(i) ==
        (IF i = 1 THEN <<>> ELSE <<",">>)
          \o <<"\"">> \o present[i] \o <<"\"", ":">>
          \o JsonNumber(scores.val[present[i]])
      members == Computed([i \in 1..Len(present) |-> member(i)])
  IN <<"{">> \o Flatten(members, 1, Len(present)) \o <<"}">>

\* SHA-256 rendered as hex: collision-free, it keeps its pre-image.
Sha256Hex(data) == [sha256 |-> data]

\* generateReceipt serializing the scores in the order of their keys.
generateReceiptUnsorted(ciphertext, modelName, timestamp, scores) ==
  LET scoresString == JsonStringify(scores, scores.keys)
      receiptData == ciphertext \o <<"|">> \o modelName \o <<"|">>
                       \o timestamp \o <<"|">> \o scoresString
  IN Sha256Hex(receiptData)

\* generateReceipt with a replacer that lists no key of the scores.
generateReceiptUnkeyed(ciphertext, modelName, timestamp, scores) ==
  LET scoresString == JsonStringify(scores, <<>>)
      receiptData == ciphertext \o <<"|">> \o modelName \o <<"|">>
                       \o timestamp \o <<"|">> \o scoresString
  IN Sha256Hex(receiptData)

generateReceipt(ciphertext, modelName, timestamp, scores) ==
  LET scoresString == JsonStringify(scores, SortTexts(scores.keys))
      receiptData == ciphertext \o <<"|">> \o modelName \o <<"|">>
                       \o timestamp \o <<"|">> \o scoresString
  IN Sha256Hex(receiptData)

(***************************************************************************)
(* Requests                                                                *)
(***************************************************************************)
\* A text of n code units repeating a pattern.
MkText(n, pattern) ==
  Computed([i \in 1..n |-> pattern[((i - 1) % Len(pattern)) + 1]])

\* "pitch" repeated.
PitchPattern == <<112, 105, 116, 99, 104>>

\* The 80-character pitch of the end-to-end scenario.
EndToEndPitch ==
  <<87, 101, 32, 98, 117, 105, 108, 100, 32, 97, 110, 32, 65, 73, 32, 112,
  105, 116, 99, 104, 32, 101, 118, 97, 108, 117, 97, 116, 111, 114, 32,
  119, 105, 116, 104, 32, 101, 110, 100, 45, 116, 111, 45, 101, 110, 100,
  32, 101, 110, 99, 114, 121, 112, 116, 105, 111, 110, 32, 97, 110, 100,
  32, 110, 111, 32, 100, 97, 116, 97, 32, 114, 101, 116, 101, 110, 116,
  105, 111, 110, 46>>

\* 52 code units: leading space, '<', '&', two-, three- and four-byte
\* characters, trailing tab.
MixedPitch ==
  <<32, 60, 38, 233, 8364, 55357, 56832>> \o MkText(44, PitchPattern) \o <<9>>

ShortPitch == MkText(MIN_PITCH_LENGTH - 1, PitchPattern)
MinimalPitch == MkText(MIN_PITCH_LENGTH, PitchPattern)
OverlongPitch == MkText(MAX_PITCH_LENGTH + 1, PitchPattern)

\* JSON values of a request body.
JString(s) == [t |-> "string", s |-> s]
JNumber(n) == [t |-> "number", n |-> n]
JNull == [t |-> "null"]
JBoolean(b) == [t |-> "boolean", b |-> b]
JArray == [t |-> "array"]
JObject(fields) == [t |-> "object", fields |-> fields]

\* The body a client posts for an envelope, with or without a model hint.
EnvelopeFields(env) ==
  ("ciphertext" :> JString(env.encryptedData)) @@ ("aes_key" :> JString(env.key))
    @@ ("iv" :> JString(env.iv))

\* A buffer with the byte at position i (1-based) altered.
FlipByte(bytes, i) == [bytes EXCEPT ![i] = (bytes[i] + 1) % 256]

Sealed(pitch) == SubtleEncrypt(KeyOf(1), IvOf(1), TextEncoderEncode(pitch))

\* The ways an envelope is altered on its way: one byte of the ciphertext
\* or of its tag is changed, the last byte is cut off, the key or the IV is
\* another one, a shorter or a longer one.
Tamperings(pitch) ==
  {[kind |-> "flip", at |-> i] : i \in 1..Len(Sealed(pitch))}
    \cup {[kind |-> k, at |-> 0] :
            k \in {"truncated", "key", "iv", "shortkey", "shortiv",
                   "longkey", "longiv"}}

Untouched == [kind |-> "none", at |-> 0]

\* The envelope of pitch under key 1 and IV 1, altered on the way.
TamperedEnvelope(pitch, how) ==
  LET env == encryptPitch(pitch, KeyOf(1), IvOf(1))
      sealed == Sealed(pitch)
  IN CASE how.kind = "none" -> env
       [] how.kind = "flip" ->
            [env EXCEPT !.encryptedData =
                          arrayBufferToBase64(FlipByte(sealed, how.at))]
       [] how.kind = "truncated" ->
            [env EXCEPT !.encryptedData =
                          arrayBufferToBase64(SubSeq(sealed, 1, Len(sealed) - 1))]
       [] how.kind = "key" -> [env EXCEPT !.key = arrayBufferToBase64(KeyOf(2))]
       [] how.kind = "iv" -> [env EXCEPT !.iv = arrayBufferToBase64(IvOf(2))]
       [] how.kind = "shortkey" ->
            [env EXCEPT !.key = arrayBufferToBase64(SubSeq(KeyOf(1), 1, 16))]
       [] how.kind = "shortiv" ->
            [env EXCEPT !.iv = arrayBufferToBase64(SubSeq(IvOf(1), 1, 8))]
       [] how.kind = "longkey" ->
            [env EXCEPT !.key = arrayBufferToBase64(KeyOf(1) \o <<0>>)]
       [] how.kind = "longiv" ->
            [env EXCEPT !.iv = arrayBufferToBase64(IvOf(1) \o <<0, 0, 0, 0>>)]

\* A model hint a client sends.
CustomModel == <<"g", "p", "t", "-", "4">>

\* A request: the body as request.json() reads it, and where it came from
\* (pitch, key and IV of the sender; not visible to the handler).
Request(body, pitch, how) ==
  [body |-> body,
   origin |-> [pitch |-> pitch, key |-> KeyOf(1), iv |-> IvOf(1), how |-> how]]

JsonBody(value) == [json |-> TRUE, value |-> value]
BadBody == [kind |-> "body", at |-> 0]
InvalidJsonBody == [json |-> FALSE]

HonestRequests ==
  {Request(JsonBody(JObject(EnvelopeFields(TamperedEnvelope(p, Untouched)))),
           p, Untouched) :
     p \in {ShortPitch, MinimalPitch, MixedPitch, EndToEndPitch, OverlongPitch}}
    \cup
  {Request(JsonBody(JObject(EnvelopeFields(TamperedEnvelope(MinimalPitch, Untouched))
                              @@ ("model" :> JString(m)))),
           MinimalPitch, Untouched) : m \in {CustomModel, <<>>}}

TamperedRequests ==
  {Request(JsonBody(JObject(EnvelopeFields(TamperedEnvelope(MinimalPitch, how)))),
           MinimalPitch, how) : how \in Tamperings(MinimalPitch)}

MalformedRequests ==
  LET env == TamperedEnvelope(MinimalPitch, Untouched)
      full == EnvelopeFields(env)
  IN {Request(InvalidJsonBody, MinimalPitch, BadBody),
      Request(JsonBody(JNull), MinimalPitch, BadBody),
      Request(JsonBody(JNumber(5)), MinimalPitch, BadBody),
      Request(JsonBody(JString(<<"h", "i">>)), MinimalPitch, BadBody),
      Request(JsonBody(JBoolean(TRUE)), MinimalPitch, BadBody),
      Request(JsonBody(JArray), MinimalPitch, BadBody),
      Request(JsonBody(JObject([f \in {"ciphertext", "aes_key"} |-> full[f]])),
              MinimalPitch, BadBody),
      Request(JsonBody(JObject(("aes_key" :> JNumber(5)) @@ full)),
              MinimalPitch, BadBody)}

Requests == HonestRequests \cup TamperedRequests \cup MalformedRequests

(***************************************************************************)
(* Upstream replies                                                        *)
(***************************************************************************)
K_note == <<"n", "o", "t", "e">>

\* An object as JSON.parse builds it: its keys in the order of the text.
ParsedObject(keys, vals) ==
  [t |-> "object", keys |-> keys, val |-> [k \in Range(keys) |-> vals[k]]]

FourNumbers(a, b, c, d) ==
  (K_clarity :> JNumber(a)) @@ (K_originality :> JNumber(b))
    @@ (K_team_strength :> JNumber(c)) @@ (K_market_fit :> JNumber(d))

\* What JSON.parse(content.trim()) can give for the reply to pitch: a throw
\* or a value; a reply may quote the pitch it was asked about.
ParsedReplies(pitch) ==
  {[ok |-> FALSE],
   [ok |-> TRUE, value |-> JNull],
   [ok |-> TRUE, value |-> JNumber(50)],
   [ok |-> TRUE, value |-> ParsedObject(requiredKeys, FourNumbers(85, 72, 91, 88))],
   [ok |-> TRUE, value |-> ParsedObject(requiredKeys, FourNumbers(0, 100, 5, 99))],
   [ok |-> TRUE,
    value |-> ParsedObject(<<K_market_fit, K_note, K_team_strength,
                             K_originality, K_clarity>>,
                           FourNumbers(85, 72, 91, 88)
                             @@ (K_note :> JString(pitch)))],
   [ok |-> TRUE,
    value |-> ParsedObject(<<K_clarity, K_originality, K_team_strength>>,
                           FourNumbers(85, 72, 91, 88))],
   [ok |-> TRUE, value |-> ParsedObject(requiredKeys, FourNumbers(85, 101, 91, 88))],
   [ok |-> TRUE, value |-> ParsedObject(requiredKeys, FourNumbers(85, 72, 0 - 1, 88))],
   [ok |-> TRUE,
    value |-> ParsedObject(requiredKeys,
                           (K_clarity :> JString(pitch))
                             @@ FourNumbers(85, 72, 91, 88))]}

\* What response.json() can resolve to: data.choices?.[0]?.message?.content
\* is absent, empty, not a string, or a string with its parse.
UpstreamData(pitch) ==
  {[t |-> "null"],
   [t |-> "object", content |-> [t |-> "undefined"]],
   [t |-> "object", content |-> [t |-> "string", empty |-> TRUE]],
   [t |-> "object", content |-> [t |-> "number"]]}
    \cup
  {[t |-> "object", content |-> [t |-> "string", empty |-> FALSE, parsed |-> r]] :
     r \in ParsedReplies(pitch)}

(***************************************************************************)
(* analyzeWithMistral, after the reply is read (lines 382-427)             *)
(***************************************************************************)
\* The result of a tier: the scores, the tier that produced them, the
\* console calls made on the way.
TierResult(tier, scores, logs) == [tier |-> tier, scores |-> scores, logs |-> logs]

MockResult(now, logs) == TierResult("Mock", getMockScores(now), logs)

\* ScoreError without the upper limit of the range.
ScoreErrorNoUpperLimit(v) ==
  IF v.t # "object" THEN [t |-> "error", name |-> "TypeError"]
  ELSE IF ~(\A i \in 1..Len(requiredKeys) : requiredKeys[i] \in Range(v.keys))
    THEN [t |-> "error", message |-> "Missing required score categories"]
  ELSE LET bad == {i \in 1..Len(requiredKeys) :
                     LET score == v.val[requiredKeys[i]]
                     IN score.t # "number" \/ score.n < 0}
       IN IF bad = {} THEN [t |-> "none"]
          ELSE LET i == CHOOSE i \in bad : \A j \in bad : i <= j
               IN [t |-> "error",
                   message |-> "Invalid score for ${key}: ${score}",
                   key |-> requiredKeys[i],
                   score |-> v.val[requiredKeys[i]]]

\* The error the validation of a parsed reply throws, or "none".
ScoreError(v) ==
  IF v.t # "object" THEN [t |-> "error", name |-> "TypeError"]
  ELSE IF ~(\A i \in 1..Len(requiredKeys) : requiredKeys[i] \in Range(v.keys))
    THEN [t |-> "error", message |-> "Missing required score categories"]
  ELSE LET bad == {i \in 1..Len(requiredKeys) :
                     LET score == v.val[requiredKeys[i]]
                     IN score.t # "number" \/ score.n < 0 \/ score.n > 100}
       IN IF bad = {} THEN [t |-> "none"]
          ELSE LET i == CHOOSE i \in bad : \A j \in bad : i <= j
               IN [t |-> "error",
                   message |-> "Invalid score for ${key}: ${score}",
                   key |-> requiredKeys[i],
                   score |-> v.val[requiredKeys[i]]]

\* The try block around JSON.parse (lines 391-418).
ParseScores(content, now) ==
  IF ~content.parsed.ok
    THEN MockResult(now, <<LogEntry("Invalid JSON response from OpenRouter:",
                                    [t |-> "error", name |-> "SyntaxError"])>>)
  ELSE LET scores == content.parsed.value
           err == ScoreError(scores)
       IN IF err.t # "none"
            THEN MockResult(now,
                   <<LogEntry("Invalid JSON response from OpenRouter:", err)>>)
            ELSE TierResult("Primary",
                            ScoresObject(scores.val[K_clarity].n,
                                         scores.val[K_originality].n,
                                         scores.val[K_team_strength].n,
                                         scores.val[K_market_fit].n),
                            <<>>)

\* From `const data = await response.json()` on, data being what it gave.
InterpretData(data, now) ==
  IF data.t # "object"
    THEN MockResult(now, <<LogEntry("OpenRouter API request failed:",
                                    [t |-> "error", name |-> "TypeError"])>>)
  ELSE IF data.content.t = "undefined"
            \/ (data.content.t = "string" /\ data.content.empty)
    THEN MockResult(now, <<LogEntry("Empty response from OpenRouter", NoArg)>>)
  ELSE IF data.content.t # "string"
    THEN MockResult(now, <<LogEntry("Invalid JSON response from OpenRouter:",
                                    [t |-> "error", name |-> "TypeError"])>>)
  ELSE ParseScores(data.content, now)

(***************************************************************************)
(* The request handler: export async function POST (lines 454-532)         *)
(***************************************************************************)
VARIABLES
  envApiKey,       \* process.env.OPENROUTER_API_KEY ("" when unset)
  now,             \* Date.now(), milliseconds
  pc,              \* where the handler of the current request stands
  request,         \* the request being handled
  pitchText,       \* POST's pitchText
  sanitizedPitch,  \* POST's sanitizedPitch
  timerDeadline,   \* when the abort timer fires (NoTimer: not armed)
  sent,            \* the calls made to the upstream, in order
  tiers,           \* the tiers attempted for this request, in order
  producedBy,      \* the tier whose scores are returned
  response,        \* the response returned
  log,             \* the console calls of this request, in order
  keyBuffer,       \* decryptPitchData's key buffer, as it is in memory
  codec,           \* one pitch on its way through encryptPitch and
                   \* decryptPitchData
  receipts,        \* two calls of generateReceipt
  parked,          \* the handler of another request, waiting at an await
  asked,           \* the request the running handler was called with
  produced,        \* the envelopes the client-side functions returned
  legacy,          \* a call of the first version's POST
  storage,         \* localStorage and the backup service's call
  realtime         \* the realtime service's callbacks

handlerVars ==
  <<envApiKey, now, pc, request, pitchText, sanitizedPitch, timerDeadline,
    sent, tiers, producedBy, response, log, keyBuffer>>

\* What the steps of the request handler leave alone.
\* The analyzer of the first version of the route, the browser's
\* localStorage, the subscriptions of the realtime service.
services == <<legacy, storage, realtime>>

aside == <<codec, receipts, parked, asked, produced, services>>

vars == <<handlerVars, aside>>

\* The codec and the receipt calls at rest.
CodecIdle == [pc |-> "idle"]
ReceiptsIdle == [pc |-> "idle"]

HARDCODED_API_KEY == "sk-or-v1-aed6"
OPENROUTER_API_KEY == IF envApiKey # "" THEN envApiKey ELSE HARDCODED_API_KEY
OPENROUTER_BASE_URL == "https://openrouter.ai/api/v1/chat/completions"

NoTimer == 0 - 1
NoResponse == [status |-> 0]
NoRequest ==
  [body |-> InvalidJsonBody,
   origin |-> [pitch |-> <<>>, key |-> <<>>, iv |-> <<>>,
               how |-> [kind |-> "idle", at |-> 0]]]

\* The k-th reading of the clock: two readings 1.5 s apart in every hour.
ClockReading(k) == (k \div 2) * MOCK_BUCKET_MS + (k % 2) * 1500

ErrorResponse(status, message) ==
  [status |-> status, body |-> [error |-> message]]

\* The body's fields, and the three the handler destructures.
Fields == request.body.value.fields
requiredFields == {"ciphertext", "aes_key", "iv"}
HasRequiredFields ==
  /\ request.body.json
  /\ request.body.value.t = "object"
  /\ requiredFields \subseteq DOMAIN Fields
FieldsAreStrings == \A f \in requiredFields : Fields[f].t = "string"

Truthy(v) == (v.t = "string" /\ v.s # <<>>) \/ (v.t = "number" /\ v.n # 0)

\* const modelName = body.model || 'mistralai/mistral-small-2409'
modelName ==
  IF "model" \in DOMAIN Fields /\ Truthy(Fields["model"])
    THEN Fields["model"].s
    ELSE PRIMARY_MODEL

\* decryptPitchData(ciphertext, aes_key, iv) of a request whose three fields
\* are strings, computed once for every request.
DecryptedOf ==
  [r \in {q \in Requests :
            /\ q.body.json
            /\ q.body.value.t = "object"
            /\ \A f \in {"ciphertext", "aes_key", "iv"} :
                  f \in DOMAIN q.body.value.fields
                    /\ q.body.value.fields[f].t = "string"} |->
     decryptPitchData(r.body.value.fields["ciphertext"].s,
                      r.body.value.fields["aes_key"].s,
                      r.body.value.fields["iv"].s)]

Decrypted == DecryptedOf[request]

HandlerInit ==
  /\ envApiKey \in {"", "sk-or-v1-env"}
  /\ now = ClockReading(0)
  /\ pc = "idle"
  /\ request = NoRequest
  /\ pitchText = <<>>
  /\ sanitizedPitch = <<>>
  /\ timerDeadline = NoTimer
  /\ sent = <<>>
  /\ tiers = <<>>
  /\ producedBy = "none"
  /\ response = NoResponse
  /\ log = <<>>
  /\ keyBuffer = <<>>

\* No concurrent handler, no client-side call.
NoHandler == [pc |-> "none"]
LegacyIdle == [pc |-> "idle"]
StorageIdle == [pc |-> "idle"]
RealtimeIdle == [pc |-> "idle"]

ServicesIdle ==
  /\ legacy = LegacyIdle
  /\ storage = StorageIdle
  /\ realtime = RealtimeIdle

AsideIdle ==
  /\ codec = CodecIdle
  /\ receipts = ReceiptsIdle
  /\ parked = NoHandler
  /\ asked = NoRequest
  /\ produced = <<>>
  /\ ServicesIdle

Init ==
  /\ HandlerInit
  /\ AsideIdle

\* Time passes.
Tick ==
  /\ \E k \in 1..MaxTicks : now = ClockReading(k - 1) /\ now' = ClockReading(k)
  /\ UNCHANGED <<envApiKey, pc, request, pitchText, sanitizedPitch,
                 timerDeadline, sent, tiers, producedBy, response, log,
                 keyBuffer, aside>>

\* A request arrives; the handler awaits request.json().
Receive ==
  /\ pc = "idle"
  /\ \E r \in Requests : request' = r
  /\ pc' = "body"
  /\ UNCHANGED <<envApiKey, now, pitchText, sanitizedPitch, timerDeadline,
                 sent, tiers, producedBy, response, log, keyBuffer, aside>>

\* The response is on its way; the handler's frame and its locals are gone.
Return ==
  /\ pc = "responded"
  /\ pc' = "idle"
  /\ request' = NoRequest
  /\ pitchText' = <<>>
  /\ sanitizedPitch' = <<>>
  /\ timerDeadline' = NoTimer
  /\ sent' = <<>>
  /\ tiers' = <<>>
  /\ producedBy' = "none"
  /\ response' = NoResponse
  /\ log' = <<>>
  /\ keyBuffer' = <<>>
  /\ UNCHANGED <<envApiKey, now, aside>>

\* The handler returns an error response without scoring.
Fail(status, message, logs) ==
  /\ response' = ErrorResponse(status, message)
  /\ log' = log \o logs
  /\ pc' = "responded"
  /\ UNCHANGED <<envApiKey, now, request, pitchText, sanitizedPitch,
                 timerDeadline, sent, tiers, producedBy, aside>>

\* request.json() rejects (lines 458-465).
RejectInvalidJson ==
  /\ pc = "body"
  /\ ~request.body.json
  /\ Fail(400, "Invalid JSON in request body", <<>>)
  /\ UNCHANGED keyBuffer

\* `field in body` throws on a body that is no object (line 469); the outer
\* catch answers (lines 525-531).
FailOnNonObject ==
  /\ pc = "body"
  /\ request.body.json
  /\ request.body.value.t \notin {"object", "array"}
  /\ Fail(500, "Internal server error",
          <<LogEntry("Unexpected error in score handler:",
                     [t |-> "error", name |-> "TypeError"])>>)
  /\ UNCHANGED keyBuffer

\* A required field is missing (lines 468-474).
RejectMissingFields ==
  /\ pc = "body"
  /\ request.body.json
  /\ request.body.value.t \in {"object", "array"}
  /\ ~HasRequiredFields
  /\ Fail(400, "Missing required encryption parameters", <<>>)
  /\ UNCHANGED keyBuffer

\* Buffer.from throws on a field that is no string (lines 480-489).
RejectInvalidBase64 ==
  /\ pc = "body"
  /\ HasRequiredFields
  /\ ~FieldsAreStrings
  /\ Fail(400, "Invalid base64 encoding", <<>>)
  /\ UNCHANGED keyBuffer

\* RejectUndecryptable with the upstream call made before decryptPitchData
\* has returned.
RejectUndecryptableAfterCall ==
  /\ pc = "body"
  /\ HasRequiredFields
  /\ FieldsAreStrings
  /\ LET d == Decrypted
     IN /\ ~d.ok
        /\ response' = ErrorResponse(400, d.error)
        /\ log' = log \o d.logs
  /\ pc' = "responded"
  /\ sent' = Append(sent, [url |-> OPENROUTER_BASE_URL,
                           authorization |-> OPENROUTER_API_KEY,
                           model |-> PRIMARY_MODEL, content |-> <<>>])
  /\ tiers' = Append(tiers, "Primary")
  /\ keyBuffer' = BufferFromBase64(Fields["aes_key"].s)
  /\ UNCHANGED <<envApiKey, now, request, pitchText, sanitizedPitch,
                 timerDeadline, producedBy, aside>>

\* RejectUndecryptable answering with the message of the error that
\* decryptPitchData caught.
RejectUndecryptableVerbose ==
  /\ pc = "body"
  /\ HasRequiredFields
  /\ FieldsAreStrings
  /\ LET d == Decrypted
     IN /\ ~d.ok
        /\ Fail(400, d.logs[1].arg.message, d.logs)
  /\ keyBuffer' = BufferFromBase64(Fields["aes_key"].s)

\* decryptPitchData throws (lines 492-500); the key buffer of line 273 is
\* left as it was filled.
RejectUndecryptable ==
  /\ pc = "body"
  /\ HasRequiredFields
  /\ FieldsAreStrings
  /\ LET d == Decrypted
     IN /\ ~d.ok
        /\ Fail(400, d.error, d.logs)
  /\ keyBuffer' = BufferFromBase64(Fields["aes_key"].s)

\* Answer signing the receipt over the default model whatever the request
\* named.
AnswerSigningDefaultModel(r) ==
  LET timestamp == NatToText(now \div 1000)
      receipt == generateReceipt(Fields["ciphertext"].s, PRIMARY_MODEL,
                                 timestamp, r.scores)
  IN /\ response' = [status |-> 200,
                     body |-> [scores |-> r.scores, receipt |-> receipt,
                               timestamp |-> timestamp, model |-> modelName]]
     /\ tiers' = IF r.tier = "Mock" THEN Append(tiers, "Mock") ELSE tiers
     /\ producedBy' = r.tier
     /\ log' = log \o r.logs
     /\ pc' = "responded"

\* Answer returning the analyzed text with the result.
AnswerEchoingPitch(r) ==
  LET timestamp == NatToText(now \div 1000)
      receipt == generateReceipt(Fields["ciphertext"].s, modelName, timestamp,
                                 r.scores)
  IN /\ response' = [status |-> 200,
                     body |-> [scores |-> r.scores, receipt |-> receipt,
                               timestamp |-> timestamp, model |-> modelName,
                               pitch |-> sanitizedPitch]]
     /\ tiers' = IF r.tier = "Mock" THEN Append(tiers, "Mock") ELSE tiers
     /\ producedBy' = r.tier
     /\ log' = log \o r.logs
     /\ pc' = "responded"

\* analyzeWithMistral returned r; POST stamps, signs and answers
\* (lines 508-523).
Answer(r) ==
  LET timestamp == NatToText(now \div 1000)
      receipt == generateReceipt(Fields["ciphertext"].s, modelName, timestamp,
                                 r.scores)
  IN /\ response' = [status |-> 200,
                     body |-> [scores |-> r.scores, receipt |-> receipt,
                               timestamp |-> timestamp, model |-> modelName]]
     /\ tiers' = IF r.tier = "Mock" THEN Append(tiers, "Mock") ELSE tiers
     /\ producedBy' = r.tier
     /\ log' = log \o r.logs
     /\ pc' = "responded"

\* The payload and headers of the upstream call (lines 345-373).
UpstreamCall(text) ==
  [url |-> OPENROUTER_BASE_URL, authorization |-> OPENROUTER_API_KEY,
   model |-> PRIMARY_MODEL, content |-> text]

\* Decryption succeeds; the pitch is sanitized and analyzeWithMistral runs up
\* to its await of fetch (lines 492-373), or answers with mock scores when
\* no API key is configured (lines 327-330).
StartAnalysis ==
  /\ pc = "body"
  /\ HasRequiredFields
  /\ FieldsAreStrings
  /\ LET d == Decrypted
         clean == sanitizeInput(d.text)
     IN /\ d.ok
        /\ pitchText' = d.text
        /\ sanitizedPitch' = clean
        /\ IF OPENROUTER_API_KEY = ""
             THEN /\ Answer(MockResult(now,
                       <<LogEntry("OpenRouter API key not configured, using mock scores",
                                  NoArg)>>))
                  /\ UNCHANGED <<timerDeadline, sent>>
             ELSE /\ timerDeadline' = now + REQUEST_TIMEOUT
                  /\ sent' = Append(sent, UpstreamCall(clean))
                  /\ tiers' = Append(tiers, "Primary")
                  /\ pc' = "fetching"
                  /\ UNCHANGED <<producedBy, response, log>>
  /\ keyBuffer' = BufferFromBase64(Fields["aes_key"].s)
  /\ UNCHANGED <<envApiKey, now, request, aside>>

\* fetch rejects: the catch of lines 420-427.
FetchRejected ==
  /\ pc = "fetching"
  /\ Answer(MockResult(now, <<LogEntry("OpenRouter API request failed:",
                                       [t |-> "error", name |-> "TypeError"])>>))
  /\ UNCHANGED <<envApiKey, now, request, pitchText, sanitizedPitch,
                 timerDeadline, sent, keyBuffer, aside>>

\* The timer of line 366 fires while fetch is pending: fetch rejects with
\* an AbortError.
FetchTimedOut ==
  /\ pc = "fetching"
  /\ timerDeadline # NoTimer
  /\ now >= timerDeadline
  /\ timerDeadline' = NoTimer
  /\ Answer(MockResult(now, <<LogEntry("OpenRouter API timeout", NoArg)>>))
  /\ UNCHANGED <<envApiKey, now, request, pitchText, sanitizedPitch, sent,
                 keyBuffer, aside>>

\* fetch resolves with a status outside 200-299 (lines 375-380).
FetchNotOk ==
  /\ pc = "fetching"
  /\ timerDeadline' = NoTimer
  /\ \E status \in {429, 500} :
       Answer(MockResult(now, <<LogEntry("OpenRouter API error: ${response.status}",
                                         [t |-> "status", status |-> status])>>))
  /\ UNCHANGED <<envApiKey, now, request, pitchText, sanitizedPitch, sent,
                 keyBuffer, aside>>

\* fetch resolves with a 2xx status; the timer is cleared and the handler
\* awaits response.json() (lines 375-382).
FetchOk ==
  /\ pc = "fetching"
  /\ timerDeadline' = NoTimer
  /\ pc' = "reading"
  /\ UNCHANGED <<envApiKey, now, request, pitchText, sanitizedPitch, sent,
                 tiers, producedBy, response, log, keyBuffer, aside>>

\* BodyUnreadable with the rejection of response.json() reaching the outer
\* catch of POST.
BodyUnreadableUncaught ==
  /\ pc = "reading"
  /\ Fail(500, "Internal server error",
          <<LogEntry("Unexpected error in score handler:",
                     [t |-> "error", name |-> "SyntaxError"])>>)
  /\ UNCHANGED keyBuffer

\* response.json() rejects: the body is no JSON (catch of lines 420-427).
BodyUnreadable ==
  /\ pc = "reading"
  /\ Answer(MockResult(now, <<LogEntry("OpenRouter API request failed:",
                                       [t |-> "error", name |-> "SyntaxError"])>>))
  /\ UNCHANGED <<envApiKey, now, request, pitchText, sanitizedPitch,
                 timerDeadline, sent, keyBuffer, aside>>

\* response.json() resolves (lines 382-418).
BodyRead ==
  /\ pc = "reading"
  /\ \E data \in UpstreamData(sanitizedPitch) : Answer(InterpretData(data, now))
  /\ UNCHANGED <<envApiKey, now, request, pitchText, sanitizedPitch,
                 timerDeadline, sent, keyBuffer, aside>>

(***************************************************************************)
(* GET /health (app/api/health/route.ts)                                   *)
(***************************************************************************)
\* A number in decimal, padded with zeros to the given width.
Padded(n, width) ==
  LET text == NatToText(n)
  IN [i \in 1..(width - Len(text)) |-> "0"] \o text

\* Date.prototype.toISOString of a time in the January of 1970.
toISOString(ms) ==
  <<"1", "9", "7", "0", "-", "0", "1", "-">>
    \o Padded((ms \div 86400000) + 1, 2) \o <<"T">>
    \o Padded((ms \div 3600000) % 24, 2) \o <<":">>
    \o Padded((ms \div 60000) % 60, 2) \o <<":">>
    \o Padded((ms \div 1000) % 60, 2) \o <<".">>
    \o Padded(ms % 1000, 3) \o <<"Z">>

\* !!(process.env.OPENROUTER_API_KEY || 'sk-or-v1-...') (line 4).
openrouterConfigured ==
  (IF envApiKey # "" THEN envApiKey ELSE HARDCODED_API_KEY) # ""

\* GET answers (lines 3-18).
GetHealth ==
  /\ pc = "idle"
  /\ pc' = "health"
  /\ response' =
       [status |-> 200,
        body |-> [service |-> "Stealth Code API",
                  status |-> "healthy",
                  timestamp |-> toISOString(now),
                  version |-> "2.0.0",
                  openrouter_configured |-> openrouterConfigured,
                  services |-> [encryption |-> "operational",
                                ai_analysis |-> "operational",
                                payments |-> "operational"]]]
  /\ UNCHANGED <<envApiKey, now, request, pitchText, sanitizedPitch,
                 timerDeadline, sent, tiers, producedBy, log, keyBuffer,
                 aside>>

\* The health response is on its way.
HealthReturn ==
  /\ pc = "health"
  /\ pc' = "idle"
  /\ response' = NoResponse
  /\ UNCHANGED <<envApiKey, now, request, pitchText, sanitizedPitch,
                 timerDeadline, sent, tiers, producedBy, log, keyBuffer,
                 aside>>

Next ==
  \/ Tick
  \/ Receive
  \/ RejectInvalidJson
  \/ FailOnNonObject
  \/ RejectMissingFields
  \/ RejectInvalidBase64
  \/ RejectUndecryptable
  \/ StartAnalysis
  \/ FetchRejected
  \/ FetchTimedOut
  \/ FetchNotOk
  \/ FetchOk
  \/ BodyUnreadable
  \/ BodyRead
  \/ Return
  \/ GetHealth
  \/ HealthReturn

Spec == Init /\ [][Next]_vars

(***************************************************************************)
(* encryptPitch on the client, decryptPitchData on the server: one pitch   *)
(* under a key and an IV the generators returned                           *)
(***************************************************************************)
\* Every surrogate code unit of the text is half of a pair.
WellFormed(text) ==
  \A i \in 1..Len(text) :
    /\ IsHighSurrogate(text[i]) =>
         i < Len(text) /\ IsLowSurrogate(text[i + 1])
    /\ IsLowSurrogate(text[i]) => i > 1 /\ IsHighSurrogate(text[i - 1])

\* The first and last characters of every UTF-8 length, U+FFFD itself, the
\* first and the last code point beyond the basic plane.
BoundaryPitch ==
  <<0, 127, 128, 2047, 2048, 55295, 57344, 65535, 65533,
    55296, 56320, 56319, 57343>> \o MkText(40, PitchPattern)

\* Pitches with a high surrogate at the end, a low surrogate in the middle,
\* and the two halves of a pair in the wrong order.
LoneHighPitch == MkText(49, PitchPattern) \o <<55357>>
LoneLowPitch == MkText(25, PitchPattern) \o <<56832>> \o MkText(30, PitchPattern)
SwappedPairPitch == <<56832, 55357>> \o MkText(50, PitchPattern)

\* A pitch of the greatest length, with characters of every UTF-8 length.
LongPitch ==
  <<233, 8364, 55357, 56832>> \o MkText(MAX_PITCH_LENGTH - 4, PitchPattern)

CodecPitches ==
  {ShortPitch, MinimalPitch, MkText(51, PitchPattern), MkText(52, PitchPattern),
   MixedPitch, EndToEndPitch, BoundaryPitch, LoneHighPitch, LoneLowPitch,
   SwappedPairPitch, LongPitch}

CodecInit ==
  /\ HandlerInit
  /\ receipts = ReceiptsIdle
  /\ parked = NoHandler
  /\ asked = NoRequest
  /\ produced = <<>>
  /\ ServicesIdle
  /\ codec \in {[pc |-> "plain", pitch |-> p, key |-> k, iv |-> v] :
                  p \in CodecPitches, k \in KeySpace, v \in IvSpace}

\* The client seals the pitch.
Encrypt ==
  /\ codec.pc = "plain"
  /\ codec' = [pc |-> "sealed", pitch |-> codec.pitch, key |-> codec.key,
               iv |-> codec.iv,
               envelope |-> encryptPitch(codec.pitch, codec.key, codec.iv)]
  /\ UNCHANGED <<handlerVars, receipts, parked, asked, produced, services>>

\* The server opens the envelope.
Decrypt ==
  /\ codec.pc = "sealed"
  /\ codec' = [pc |-> "opened", pitch |-> codec.pitch, key |-> codec.key,
               iv |-> codec.iv, envelope |-> codec.envelope,
               result |-> decryptPitchData(codec.envelope.encryptedData,
                                           codec.envelope.key,
                                           codec.envelope.iv)]
  /\ UNCHANGED <<handlerVars, receipts, parked, asked, produced, services>>

CodecNext ==
  \/ Encrypt
  \/ Decrypt

SpecCodec == CodecInit /\ [][CodecNext]_vars

(***************************************************************************)
(* generateReceipt: two calls whose arguments differ in at most one place  *)
(***************************************************************************)
ReceiptCiphertexts ==
  {<<"Q", "U", "J", "D">>, <<"Q", "U", "J", "E">>, <<"Q", "U", "I", "=">>}
ReceiptModels == {PRIMARY_MODEL, CustomModel, <<"g", "p", "t", "-", "4", "o">>}
ReceiptTimestamps == {NatToText(0), NatToText(1), NatToText(3600)}
ReceiptScores ==
  {ScoresObject(85, 72, 91, 88), ScoresObject(86, 72, 91, 88),
   ScoresObject(85, 72, 91, 87), ScoresObject(80, 72, 91, 88)}

ReceiptArgs ==
  [ciphertext : ReceiptCiphertexts, modelName : ReceiptModels,
   timestamp : ReceiptTimestamps, scores : ReceiptScores]

ArgNames == {"ciphertext", "modelName", "timestamp", "scores"}

\* The arguments in which two calls differ.
Differing(a, b) == {f \in ArgNames : a[f] # b[f]}

\* Two calls whose arguments differ in at most one place.
ReceiptPairs ==
  UNION {{[pc |-> "args", a |-> x, b |-> y] :
            y \in {z \in ReceiptArgs : Cardinality(Differing(x, z)) <= 1}} :
           x \in ReceiptArgs}

ReceiptsInit ==
  /\ HandlerInit
  /\ codec = CodecIdle
  /\ parked = NoHandler
  /\ asked = NoRequest
  /\ produced = <<>>
  /\ ServicesIdle
  /\ receipts \in ReceiptPairs

\* Both calls are made.
GenerateReceipts ==
  /\ receipts.pc = "args"
  /\ receipts' =
       [pc |-> "done", a |-> receipts.a, b |-> receipts.b,
        ra |-> generateReceipt(receipts.a.ciphertext, receipts.a.modelName,
                               receipts.a.timestamp, receipts.a.scores),
        rb |-> generateReceipt(receipts.b.ciphertext, receipts.b.modelName,
                               receipts.b.timestamp, receipts.b.scores)]
  /\ UNCHANGED <<handlerVars, codec, parked, asked, produced, services>>

ReceiptsNext == GenerateReceipts

SpecReceipts == ReceiptsInit /\ [][ReceiptsNext]_vars

\* The ciphertext text of an honest envelope, as sent and with characters
\* outside the base64 alphabet appended: Buffer.from skips them (lines
\* 480-482), so the handler decrypts each of them and signs the text as sent.
DelimiterCiphertexts ==
  LET sealed(env) ==
        {c \in {env.encryptedData, env.encryptedData \o <<"|", "x">>,
                env.encryptedData \o <<"|", "x", "|", "y">>} :
           decryptPitchData(c, env.key, env.iv).ok}
  IN sealed(encryptPitch(MinimalPitch, KeyOf(1), IvOf(1)))

\* Model hints a client can send: body.model is used as it comes (line 477).
DelimiterModels == {PRIMARY_MODEL, CustomModel, <<"y">>, <<"x", "|", "y">>}

DelimiterArgs ==
  [ciphertext : DelimiterCiphertexts, modelName : DelimiterModels,
   timestamp : {NatToText(0), NatToText(3600)},
   scores : {ScoresObject(85, 72, 91, 88), ScoresObject(86, 72, 91, 88)}]

\* Any two calls the handler can make.
DelimiterPairs ==
  {[pc |-> "args", a |-> x, b |-> y] : x \in DelimiterArgs, y \in DelimiterArgs}

DelimiterInit ==
  /\ HandlerInit
  /\ codec = CodecIdle
  /\ parked = NoHandler
  /\ asked = NoRequest
  /\ produced = <<>>
  /\ ServicesIdle
  /\ receipts \in DelimiterPairs

SpecDelimiter == DelimiterInit /\ [][ReceiptsNext]_vars

\* The orders in which the four fields of a scores object can be inserted.
KeyOrders ==
  {order \in [1..Len(requiredKeys) -> Range(requiredKeys)] :
     Range(order) = Range(requiredKeys)}

\* The same object built by inserting the fields in another order.
Reinserted(scores, order) == [keys |-> order, val |-> scores.val]

\* Two calls that differ in nothing but the order in which the fields of
\* the scores were inserted.
KeyOrderPairs ==
  {[pc |-> "args", a |-> x,
    b |-> [x EXCEPT !.scores = Reinserted(x.scores, order)]] :
     x \in ReceiptArgs, order \in KeyOrders}

KeyOrderInit ==
  /\ HandlerInit
  /\ codec = CodecIdle
  /\ parked = NoHandler
  /\ asked = NoRequest
  /\ produced = <<>>
  /\ ServicesIdle
  /\ receipts \in KeyOrderPairs

SpecKeyOrder == KeyOrderInit /\ [][ReceiptsNext]_vars

(***************************************************************************)
(* Two requests at once: the runtime calls POST for each, and at every     *)
(* await it may go on with the other call.  The handler variables are the  *)
(* locals of the call that is running, parked holds those of the other.    *)
(* The module-level constants and the clock are the same for both.         *)
(***************************************************************************)
\* The locals of the running call.
Frame ==
  [pc |-> pc, request |-> request, pitchText |-> pitchText,
   sanitizedPitch |-> sanitizedPitch, timerDeadline |-> timerDeadline,
   sent |-> sent, tiers |-> tiers, producedBy |-> producedBy,
   response |-> response, log |-> log, keyBuffer |-> keyBuffer,
   asked |-> asked]

\* The locals of a call that has not been made.
IdleFrame ==
  [pc |-> "idle", request |-> NoRequest, pitchText |-> <<>>,
   sanitizedPitch |-> <<>>, timerDeadline |-> NoTimer, sent |-> <<>>,
   tiers |-> <<>>, producedBy |-> "none", response |-> NoResponse,
   log |-> <<>>, keyBuffer |-> <<>>, asked |-> NoRequest]

EnvelopeRequest(pitch, how) ==
  Request(JsonBody(JObject(EnvelopeFields(TamperedEnvelope(pitch, how)))),
          pitch, how)

\* The requests that meet: two pitches, one of them under a model of the
\* client's choosing, and an envelope whose first byte was altered.
ConcurrentRequests ==
  {EnvelopeRequest(EndToEndPitch, Untouched),
   Request(JsonBody(JObject(EnvelopeFields(TamperedEnvelope(MinimalPitch,
                                                            Untouched))
                              @@ ("model" :> JString(CustomModel)))),
           MinimalPitch, Untouched),
   EnvelopeRequest(MinimalPitch, [kind |-> "flip", at |-> 1])}

ConcurrentInit ==
  /\ HandlerInit
  /\ codec = CodecIdle
  /\ receipts = ReceiptsIdle
  /\ parked = IdleFrame
  /\ asked = NoRequest
  /\ produced = <<>>
  /\ ServicesIdle

\* The runtime calls POST with a request.
Accept ==
  /\ pc = "idle"
  /\ \E r \in ConcurrentRequests : request' = r /\ asked' = r
  /\ pc' = "body"
  /\ UNCHANGED <<envApiKey, now, pitchText, sanitizedPitch, timerDeadline,
                 sent, tiers, producedBy, response, log, keyBuffer, codec,
                 receipts, parked, produced, services>>

\* Switch with the parsed body kept in a variable of the module: the call
\* that resumes finds the body of the call that ran last.
SwitchSharingBody ==
  /\ pc \in {"idle", "body", "fetching", "reading"}
  /\ parked' = Frame
  /\ pc' = parked.pc
  /\ request' = IF request = NoRequest THEN parked.request ELSE request
  /\ pitchText' = parked.pitchText
  /\ sanitizedPitch' = parked.sanitizedPitch
  /\ timerDeadline' = parked.timerDeadline
  /\ sent' = parked.sent
  /\ tiers' = parked.tiers
  /\ producedBy' = parked.producedBy
  /\ response' = parked.response
  /\ log' = parked.log
  /\ keyBuffer' = parked.keyBuffer
  /\ asked' = parked.asked
  /\ UNCHANGED <<envApiKey, now, codec, receipts, produced, services>>

\* The running call is at an await, or none is running: the runtime goes on
\* with the other call, whose locals are as it left them.
Switch ==
  /\ pc \in {"idle", "body", "fetching", "reading"}
  /\ parked' = Frame
  /\ pc' = parked.pc
  /\ request' = parked.request
  /\ pitchText' = parked.pitchText
  /\ sanitizedPitch' = parked.sanitizedPitch
  /\ timerDeadline' = parked.timerDeadline
  /\ sent' = parked.sent
  /\ tiers' = parked.tiers
  /\ producedBy' = parked.producedBy
  /\ response' = parked.response
  /\ log' = parked.log
  /\ keyBuffer' = parked.keyBuffer
  /\ asked' = parked.asked
  /\ UNCHANGED <<envApiKey, now, codec, receipts, produced, services>>

ConcurrentNext ==
  \/ Tick
  \/ Accept
  \/ Switch
  \/ RejectUndecryptable
  \/ StartAnalysis
  \/ FetchRejected
  \/ FetchTimedOut
  \/ FetchNotOk
  \/ FetchOk
  \/ BodyUnreadable
  \/ BodyRead
  \/ Return

SpecConcurrent == ConcurrentInit /\ [][ConcurrentNext]_vars

(***************************************************************************)
(* The client-side encryption functions called one after another:          *)
(* encryptPitch of utils/encryption.ts and encryptData of the crypto       *)
(* configuration.  The draws of the random generator are numbered; two     *)
(* different draws return different values.                                *)
(***************************************************************************)
MaxCalls == 3

ClientPitches == {MinimalPitch, EndToEndPitch}

\* A CryptoKey: its bytes and whether exportKey may hand them out.
CryptoKey(raw, extractable) == [raw |-> raw, extractable |-> extractable]

\* crypto.subtle.generateKey({name: 'AES-GCM', length: 256}, true, ...), at
\* the n-th draw of a key.
generateKey(n) == CryptoKey(KeyOf(n), TRUE)

\* crypto.getRandomValues(new Uint8Array(12)), at the n-th draw of an IV.
generateIV(n) == IvOf(n)

\* importKey returning a key that may be exported.
importKeyExtractable(raw) ==
  IF Len(raw) \in {16, 24, 32}
    THEN [ok |-> TRUE, key |-> CryptoKey(raw, TRUE)]
    ELSE [ok |-> FALSE, error |-> "DataError"]

\* crypto.subtle.importKey('raw', keyBuffer, {name: 'AES-GCM'}, false,
\* ['encrypt']): a key that is not extractable, or a throw on a length that
\* is no AES key length.
importKey(raw) ==
  IF Len(raw) \in {16, 24, 32}
    THEN [ok |-> TRUE, key |-> CryptoKey(raw, FALSE)]
    ELSE [ok |-> FALSE, error |-> "DataError"]

\* crypto.subtle.exportKey('raw', key) throws on a key that is not
\* extractable.
exportKey(key) ==
  IF key.extractable THEN [ok |-> TRUE, raw |-> key.raw]
  ELSE [ok |-> FALSE, error |-> "InvalidAccessError"]

\* The rest of encryptData once it has its key: the IV is drawn, the data
\* are encrypted, the key is exported; every throw ends in the catch.
encryptDataWith(data, key, iv) ==
  LET finish(encrypted, exported) ==
        IF exported.ok
          THEN [ok |-> TRUE,
                envelope |-> [encrypted |-> arrayBufferToBase64(encrypted),
                              key |-> arrayBufferToBase64(exported.raw),
                              iv |-> arrayBufferToBase64(iv)]]
          ELSE [ok |-> FALSE, error |-> "Encryption failed",
                logs |-> <<LogEntry("Encryption error:",
                                    [t |-> "error", name |-> exported.error])>>]
  IN finish(SubtleEncrypt(key.raw, iv, TextEncoderEncode(data)),
            exportKey(key))

\* The keys and IVs drawn so far, and what each call returned.
NoCalls == [calls |-> <<>>, keys |-> 0, ivs |-> 0]

FreshInit ==
  /\ HandlerInit
  /\ codec = CodecIdle
  /\ receipts = ReceiptsIdle
  /\ parked = NoHandler
  /\ asked = NoRequest
  /\ produced = NoCalls
  /\ ServicesIdle

\* encryptPitch(pitch): a key and an IV are drawn.
CallEncryptPitch ==
  /\ Len(produced.calls) < MaxCalls
  /\ \E pitch \in ClientPitches :
       produced' =
         [calls |-> Append(produced.calls,
                           [fn |-> "encryptPitch", data |-> pitch, ok |-> TRUE,
                            envelope |->
                              encryptPitch(pitch,
                                           generateKey(produced.keys + 1).raw,
                                           generateIV(produced.ivs + 1))]),
          keys |-> produced.keys + 1,
          ivs |-> produced.ivs + 1]
  /\ UNCHANGED <<handlerVars, codec, receipts, parked, asked, services>>

\* encryptData(data) without a key: a key and an IV are drawn.
CallEncryptData ==
  /\ Len(produced.calls) < MaxCalls
  /\ \E data \in ClientPitches :
       produced' =
         [calls |-> Append(produced.calls,
                           [fn |-> "encryptData", data |-> data]
                             @@ encryptDataWith(data,
                                                generateKey(produced.keys + 1),
                                                generateIV(produced.ivs + 1))),
          keys |-> produced.keys + 1,
          ivs |-> produced.ivs + 1]
  /\ UNCHANGED <<handlerVars, codec, receipts, parked, asked, services>>

\* The keys a caller can pass: the key of an envelope it got before, or
\* bytes that are no key.
KeysAtHand ==
  {produced.calls[i].envelope.key :
     i \in {j \in 1..Len(produced.calls) : produced.calls[j].ok}}
    \cup {arrayBufferToBase64(<<1, 2, 3>>)}

\* encryptData(data, keyBase64): the key is imported; when the import
\* succeeds an IV is drawn.
CallEncryptDataWithKey ==
  /\ Len(produced.calls) < MaxCalls
  /\ \E data \in ClientPitches, keyBase64 \in KeysAtHand :
       LET imported == importKey(BufferFromBase64(keyBase64))
       IN produced' =
            [calls |->
               Append(produced.calls,
                      [fn |-> "encryptData", data |-> data,
                       given |-> keyBase64]
                        @@ (IF imported.ok
                              THEN encryptDataWith(data, imported.key,
                                                   generateIV(produced.ivs + 1))
                              ELSE [ok |-> FALSE, error |-> "Encryption failed",
                                    logs |-> <<LogEntry("Encryption error:",
                                                 [t |-> "error",
                                                  name |-> imported.error])>>])),
             keys |-> produced.keys,
             ivs |-> IF imported.ok THEN produced.ivs + 1 ELSE produced.ivs]
  /\ UNCHANGED <<handlerVars, codec, receipts, parked, asked, services>>

FreshNext ==
  \/ CallEncryptPitch
  \/ CallEncryptData
  \/ CallEncryptDataWithKey

SpecFresh == FreshInit /\ [][FreshNext]_vars

(***************************************************************************)
(* sanitizeInput called on a text, and again on its result                 *)
(***************************************************************************)
MaxTextLen == 3

\* '<', a space, the letter a and the single quote.
SanitizeAlphabet == {60, 32, 97, 39}

\* Texts that stay longer than 10,000 characters after stripping, with and
\* without white space at the start and where the text is cut, and a text
\* of exactly 10,000 characters once stripped.
LongTexts ==
  {OverlongPitch,
   <<32>> \o MkText(MAX_PITCH_LENGTH, PitchPattern),
   MkText(MAX_PITCH_LENGTH - 1, PitchPattern) \o <<32, 120>>,
   <<60>> \o MkText(MAX_PITCH_LENGTH, PitchPattern) \o <<39>>}

SanitizeTexts ==
  UNION {[1..n -> SanitizeAlphabet] : n \in 0..MaxTextLen}
    \cup {MixedPitch} \cup LongTexts

SanitizeInit ==
  /\ HandlerInit
  /\ receipts = ReceiptsIdle
  /\ parked = NoHandler
  /\ asked = NoRequest
  /\ produced = <<>>
  /\ ServicesIdle
  /\ codec \in {[pc |-> "text", text |-> x] : x \in SanitizeTexts}

\* sanitizeInput(text)
Sanitize ==
  /\ codec.pc = "text"
  /\ codec' = [pc |-> "once", text |-> codec.text,
               once |-> sanitizeInput(codec.text)]
  /\ UNCHANGED <<handlerVars, receipts, parked, asked, produced, services>>

\* sanitizeInput(sanitizeInput(text))
SanitizeAgain ==
  /\ codec.pc = "once"
  /\ codec' = [pc |-> "twice", text |-> codec.text, once |-> codec.once,
               twice |-> sanitizeInput(codec.once)]
  /\ UNCHANGED <<handlerVars, receipts, parked, asked, produced, services>>

SanitizeNext ==
  \/ Sanitize
  \/ SanitizeAgain

SpecSanitize == SanitizeInit /\ [][SanitizeNext]_vars

(***************************************************************************)
(* The first version of the route (route.ts lines 1-216): POST takes        *)
(* {encrypted_pitch, encryption_key, encryption_iv, model?} and answers     *)
(* {...scores, receipt}.                                                    *)
(***************************************************************************)
\* atob: throws on a character outside the alphabet and on a length that is
\* no base64 length; padding is allowed at the end only.
atob(text) ==
  LET n == Len(text)
      pad == IF n >= 2 /\ text[n] = "=" /\ text[n - 1] = "=" THEN 2
             ELSE IF n >= 1 /\ text[n] = "=" THEN 1 ELSE 0
      valid ==
        /\ \A i \in 1..(n - pad) : text[i] \in Range(B64Alphabet)
        /\ (n - pad) % 4 # 1
        /\ pad > 0 => n % 4 = 0
  IN IF valid THEN [ok |-> TRUE, bytes |-> BufferFromBase64(text)]
     ELSE [ok |-> FALSE, bytes |-> <<>>]

\* decryptPitchData of the first version (lines 30-66): atob, importKey,
\* crypto.subtle.decrypt, TextDecoder; every throw becomes 'Failed to
\* decrypt pitch data'.
decryptPitchDataV1(ciphertextBase64, keyBase64, ivBase64) ==
  LET failed == [ok |-> FALSE, text |-> <<>>]
      opened(ciphertext, keyData, iv) ==
        IF ~ciphertext.ok \/ ~keyData.ok \/ ~iv.ok THEN failed
        ELSE IF Len(keyData.bytes) \notin {16, 24, 32} THEN failed
        ELSE IF Len(ciphertext.bytes) < TAG_LENGTH THEN failed
        ELSE LET body == SubSeq(ciphertext.bytes, 1,
                                Len(ciphertext.bytes) - TAG_LENGTH)
                 tag == SubSeq(ciphertext.bytes,
                               Len(ciphertext.bytes) - TAG_LENGTH + 1,
                               Len(ciphertext.bytes))
                 plain == DecipherGcm(keyData.bytes, iv.bytes, body, tag)
             IN IF plain.ok THEN [ok |-> TRUE, text |-> Utf8Decode(plain.bytes)]
                ELSE failed
  IN opened(atob(ciphertextBase64), atob(keyBase64), atob(ivBase64))

\* generateReceipt of the first version (lines 69-77); scores is a string.
generateReceiptV1(ciphertext, model, timestamp, scores) ==
  Sha256Hex(ciphertext \o <<"|">> \o model \o <<"|">> \o timestamp
              \o <<"|">> \o scores)

DEFAULT_MODEL_V1 ==
  <<"m", "i", "s", "t", "r", "a", "l", "-", "7", "b", "-", "i", "n", "s",
    "t", "r", "u", "c", "t">>

\* Scores of the first version are whole numbers from 0 to 100.
WholeScores(clarity, originality, team_strength, market_fit) ==
  ScoresObject(10 * clarity, 10 * originality, 10 * team_strength,
               10 * market_fit)

\* mockAnalysis (lines 20-27): Math.random decides; the ends of the ranges.
mockAnalysis ==
  {WholeScores(c, o, 60, 65) : c \in {70, 99}, o \in {65, 94}}

\* Scores the upstream can reply with (lines 126-142).
UpstreamScoresV1 == {WholeScores(85, 78, 92, 88)}

\* Request bodies: honest envelopes with and without a model hint, an
\* envelope with an empty field, one whose ciphertext atob rejects.
LegacyBody(env, hint) ==
  [encrypted_pitch |-> env.encryptedData, encryption_key |-> env.key,
   encryption_iv |-> env.iv, model |-> hint]

LegacyBodies ==
  {LegacyBody(encryptPitch(p, KeyOf(1), IvOf(1)), m) :
     p \in {ShortPitch, MinimalPitch, MixedPitch}, m \in {<<>>, CustomModel}}
    \cup
  {[LegacyBody(encryptPitch(MinimalPitch, KeyOf(1), IvOf(1)), <<>>)
      EXCEPT !.encryption_iv = <<>>],
   [LegacyBody(encryptPitch(MinimalPitch, KeyOf(1), IvOf(1)), <<>>)
      EXCEPT !.encrypted_pitch = @ \o <<"|", "x">>]}

LegacyInit ==
  /\ HandlerInit
  /\ codec = CodecIdle
  /\ receipts = ReceiptsIdle
  /\ parked = NoHandler
  /\ asked = NoRequest
  /\ produced = <<>>
  /\ storage = StorageIdle
  /\ realtime = RealtimeIdle
  /\ legacy \in {[pc |-> "called", body |-> b, sent |-> <<>>, log |-> <<>>,
                  response |-> NoResponse] : b \in LegacyBodies}

\* const modelName = body.model || 'mistral-7b-instruct' (line 189)
modelNameV1 ==
  IF legacy.body.model # <<>> THEN legacy.body.model ELSE DEFAULT_MODEL_V1

\* POST stamps, signs and answers (lines 192-203).
LegacyAnswer(scores, logs) ==
  LET timestamp == toISOString(now)
      scoresString == JsonStringify(scores, scores.keys)
      receipt == generateReceiptV1(legacy.body.encrypted_pitch, modelNameV1,
                                   timestamp, scoresString)
  IN legacy' = [legacy EXCEPT
                  !.pc = "responded",
                  !.log = @ \o logs,
                  !.response = [status |-> 200,
                                body |-> [scores |-> scores,
                                          receipt |-> receipt]]]

LegacyFail(message, logs) ==
  legacy' = [legacy EXCEPT !.pc = "responded", !.log = @ \o logs,
                           !.response = ErrorResponse(400, message)]

\* POST up to the await of fetch, or to its answer (lines 161-190, 80-90).
LegacyPost ==
  /\ legacy.pc = "called"
  /\ LET body == legacy.body
         d == decryptPitchDataV1(body.encrypted_pitch, body.encryption_key,
                                 body.encryption_iv)
         sanitizedV1 ==
           LET kept == SelectSeq(d.text, LAMBDA c : c \notin {60, 62})
           IN SubSeq(kept, 1, IF Len(kept) > 10000 THEN 10000 ELSE Len(kept))
     IN IF body.encrypted_pitch = <<>> \/ body.encryption_key = <<>>
             \/ body.encryption_iv = <<>>
          THEN LegacyFail("Missing required encryption parameters", <<>>)
        ELSE IF ~d.ok
          THEN LegacyFail("Failed to decrypt pitch data",
                          <<LogEntry("Decryption failed:", NoArg)>>)
        ELSE IF Len(d.text) < 50
          THEN LegacyFail("Pitch content too short or invalid", <<>>)
        ELSE IF envApiKey = ""
          THEN \E scores \in mockAnalysis :
                 LegacyAnswer(scores,
                   <<LogEntry("OpenRouter API key not found, using mock analysis",
                              NoArg)>>)
        ELSE legacy' = [legacy EXCEPT
                          !.pc = "fetching",
                          !.sent = <<[authorization |-> envApiKey,
                                      model |-> <<"o", "p", "e", "n", "r", "o",
                                                  "u", "t", "e", "r", "/">>
                                                  \o modelNameV1,
                                      content |-> sanitizedV1]>>]
  /\ UNCHANGED <<handlerVars, codec, receipts, parked, asked, produced,
                 storage, realtime>>

\* fetch settles with scores (lines 126-142).
LegacyFetchOk ==
  /\ legacy.pc = "fetching"
  /\ \E scores \in UpstreamScoresV1 : LegacyAnswer(scores, <<>>)
  /\ UNCHANGED <<handlerVars, codec, receipts, parked, asked, produced,
                 storage, realtime>>

\* fetch rejects or the reply is unusable: the catch falls back to
\* mockAnalysis (lines 143-147).
LegacyFetchFailed ==
  /\ legacy.pc = "fetching"
  /\ \E scores \in mockAnalysis :
       LegacyAnswer(scores,
         <<LogEntry("OpenRouter analysis failed:", NoArg),
           LogEntry("Falling back to mock analysis", NoArg)>>)
  /\ UNCHANGED <<handlerVars, codec, receipts, parked, asked, produced,
                 storage, realtime>>

LegacyNext ==
  \/ Tick
  \/ LegacyPost
  \/ LegacyFetchOk
  \/ LegacyFetchFailed

SpecLegacy == LegacyInit /\ [][LegacyNext]_vars

(***************************************************************************)
(* BackupService (lib/services/backup.ts) over localStorage.  Its methods   *)
(* have no await, so each call runs to its end or to its throw in one step. *)
(* A backup is known by its id; listed is the array under                   *)
(* 'pitchguard_backups' (hasList: the key exists), data the ids with an     *)
(* item under 'pitchguard_backup_<id>'.                                     *)
(***************************************************************************)
MaxBackups == 3

BackupIds == 1..MaxBackups

BackupInit ==
  /\ HandlerInit
  /\ codec = CodecIdle
  /\ receipts = ReceiptsIdle
  /\ parked = NoHandler
  /\ asked = NoRequest
  /\ produced = <<>>
  /\ legacy = LegacyIdle
  /\ realtime = RealtimeIdle
  /\ storage = [pc |-> "ready", hasList |-> FALSE, listed |-> <<>>,
                data |-> {}, made |-> 0, threw |-> FALSE]

\* getBackupList (lines 80-88).
getBackupList == IF storage.hasList THEN storage.listed ELSE <<>>

\* localStorage.setItem stores the value or throws (a full or disabled
\* store); writes is what each setItem of a call does, in order.
WriteOutcomes == {"stored", "throws"}

\* createBackup (lines 25-77): the list is written, then the data.
createBackup ==
  /\ storage.pc = "ready"
  /\ storage.made < MaxBackups
  /\ \E listWrite \in WriteOutcomes, dataWrite \in WriteOutcomes :
       LET backupId == storage.made + 1
           existingBackups == Append(getBackupList, backupId)
       IN storage' =
            IF listWrite = "throws"
              THEN [storage EXCEPT !.made = backupId, !.threw = TRUE]
            ELSE IF dataWrite = "throws"
              THEN [storage EXCEPT !.made = backupId, !.threw = TRUE,
                                   !.hasList = TRUE,
                                   !.listed = existingBackups]
            ELSE [storage EXCEPT !.made = backupId, !.threw = FALSE,
                                 !.hasList = TRUE,
                                 !.listed = existingBackups,
                                 !.data = @ \cup {backupId}]
  /\ UNCHANGED <<handlerVars, codec, receipts, parked, asked, produced,
                 legacy, realtime>>

\* deleteBackup (lines 119-132): the data is removed, then the list written.
deleteBackup ==
  /\ storage.pc = "ready"
  /\ \E backupId \in BackupIds, listWrite \in WriteOutcomes :
       LET updatedBackups == SelectSeq(getBackupList, LAMBDA b : b # backupId)
       IN storage' =
            IF listWrite = "throws"
              THEN [storage EXCEPT !.threw = TRUE, !.data = @ \ {backupId}]
            ELSE [storage EXCEPT !.threw = FALSE, !.data = @ \ {backupId},
                                 !.hasList = TRUE,
                                 !.listed = updatedBackups]
  /\ UNCHANGED <<handlerVars, codec, receipts, parked, asked, produced,
                 legacy, realtime>>

\* importBackup (lines 149-182): a string that is no backup throws before
\* any write; else the data is written, then the list.
importBackup ==
  /\ storage.pc = "ready"
  /\ storage.made < MaxBackups
  /\ \E valid \in BOOLEAN, dataWrite \in WriteOutcomes,
        listWrite \in WriteOutcomes :
       LET backupId == storage.made + 1
           existingBackups == Append(getBackupList, backupId)
       IN storage' =
            IF ~valid
              THEN [storage EXCEPT !.threw = TRUE]
            ELSE IF dataWrite = "throws"
              THEN [storage EXCEPT !.made = backupId, !.threw = TRUE]
            ELSE IF listWrite = "throws"
              THEN [storage EXCEPT !.made = backupId, !.threw = TRUE,
                                   !.data = @ \cup {backupId}]
            ELSE [storage EXCEPT !.made = backupId, !.threw = FALSE,
                                 !.data = @ \cup {backupId},
                                 !.hasList = TRUE,
                                 !.listed = existingBackups]
  /\ UNCHANGED <<handlerVars, codec, receipts, parked, asked, produced,
                 legacy, realtime>>

\* clearAllBackups (lines 208-223): removes the data of every listed
\* backup, then the list.
clearAllBackups ==
  /\ storage.pc = "ready"
  /\ storage' = [storage EXCEPT !.threw = FALSE,
                                !.data = @ \ Range(getBackupList),
                                !.hasList = FALSE,
                                !.listed = <<>>]
  /\ UNCHANGED <<handlerVars, codec, receipts, parked, asked, produced,
                 legacy, realtime>>

BackupNext ==
  \/ createBackup
  \/ deleteBackup
  \/ importBackup
  \/ clearAllBackups

SpecBackup == BackupInit /\ [][BackupNext]_vars

(***************************************************************************)
(* RealtimeService (lib/services/realtime.ts): analysisSubscriptions, the   *)
(* unsubscribe functions subscribe has returned, and the callbacks that     *)
(* have been called with a status.  Callbacks are numbered in the order of  *)
(* their subscribe calls.                                                   *)
(***************************************************************************)
MaxCallbacks == 3

AnalysisIds == {"analysis_1", "analysis_2"}

NoCallback == 0

RealtimeInit ==
  /\ HandlerInit
  /\ codec = CodecIdle
  /\ receipts = ReceiptsIdle
  /\ parked = NoHandler
  /\ asked = NoRequest
  /\ produced = <<>>
  /\ legacy = LegacyIdle
  /\ storage = StorageIdle
  /\ realtime = [pc |-> "ready",
                 analysisSubscriptions |-> [a \in AnalysisIds |-> NoCallback],
                 returned |-> <<>>,
                 notified |-> {}]

\* subscribe(analysisId, callback) (lines 212-219): Map.set, and the
\* unsubscribe function closing over analysisId is returned.
subscribe ==
  /\ realtime.pc = "ready"
  /\ Len(realtime.returned) < MaxCallbacks
  /\ \E analysisId \in AnalysisIds :
       LET callback == Len(realtime.returned) + 1
       IN realtime' =
            [realtime EXCEPT
               !.analysisSubscriptions[analysisId] = callback,
               !.returned = Append(@, [analysisId |-> analysisId,
                                       called |-> FALSE])]
  /\ UNCHANGED <<handlerVars, codec, receipts, parked, asked, produced,
                 legacy, storage>>

\* A call of an unsubscribe function subscribe returned (line 217).
unsubscribe ==
  /\ realtime.pc = "ready"
  /\ \E callback \in 1..Len(realtime.returned) :
       realtime' =
         [realtime EXCEPT
            !.analysisSubscriptions[realtime.returned[callback].analysisId] =
               NoCallback,
            !.returned[callback].called = TRUE]
  /\ UNCHANGED <<handlerVars, codec, receipts, parked, asked, produced,
                 legacy, storage>>

\* notifyAnalysisUpdate(analysisId, status) (lines 240-245).
notifyAnalysisUpdate ==
  /\ realtime.pc = "ready"
  /\ \E analysisId \in AnalysisIds :
       LET callback == realtime.analysisSubscriptions[analysisId]
       IN realtime' =
            IF callback # NoCallback
              THEN [realtime EXCEPT !.notified = @ \cup {callback}]
              ELSE [realtime EXCEPT !.notified = @]
  /\ UNCHANGED <<handlerVars, codec, receipts, parked, asked, produced,
                 legacy, storage>>

RealtimeNext ==
  \/ subscribe
  \/ unsubscribe
  \/ notifyAnalysisUpdate

SpecRealtime == RealtimeInit /\ [][RealtimeNext]_vars

(***************************************************************************)
(* Properties of the request handler                                       *)
(***************************************************************************)
Responded == pc = "responded"
Answered == pc = "responded" /\ response.status = 200

\* The envelope of the request decodes, decrypts and passes validation.
ValidRequest == HasRequiredFields /\ FieldsAreStrings /\ Decrypted.ok

\* The identity of a tier: the model the Primary tier asks for, the reserved
\* identity of the mock scorer.
MOCK_IDENTITY == <<"m", "o", "c", "k">>
TierIdentity(tier) == IF tier = "Mock" THEN MOCK_IDENTITY ELSE PRIMARY_MODEL

\* C1: for every valid request the tiers are attempted in the order Primary,
\* Fallback, Mock: when the mock scorer answers, Primary and then Fallback
\* were attempted before it.
C1_TiersInOrder ==
  Answered =>
    \/ tiers = <<"Primary">>
    \/ tiers = <<"Primary", "Fallback">>
    \/ tiers = <<"Primary", "Fallback", "Mock">>

\* C2: in every 200 response the model field is the identity of the tier that
\* produced the scores, and the receipt is computed over that identity.
C2_ModelIsProducer ==
  Answered =>
    /\ response.body.model = TierIdentity(producedBy)
    /\ response.body.receipt =
         generateReceipt(Fields["ciphertext"].s, TierIdentity(producedBy),
                         response.body.timestamp, response.body.scores)

\* The four score fields are present and no other, each a number from 0 to 10
\* (in tenths).
CompleteScoreSet(scores) ==
  /\ Range(scores.keys) = Range(requiredKeys)
  /\ Len(scores.keys) = Len(requiredKeys)
  /\ DOMAIN scores.val = Range(requiredKeys)
  /\ \A k \in Range(requiredKeys) : scores.val[k] \in 0..100

\* C3: a valid request is answered 200 with a complete score set whatever the
\* upstream does; no upstream failure becomes a 4xx or 5xx response.
C3_ValidRequestAnswered ==
  (Responded /\ ValidRequest) =>
    /\ response.status = 200
    /\ CompleteScoreSet(response.body.scores)

\* A valid request was answered with mock scores after the upstream timed out,
\* failed, or replied with something unusable.
C3_Witness ==
  /\ Answered
  /\ ValidRequest
  /\ producedBy = "Mock"
  /\ \E i \in 1..Len(log) : log[i].msg = "OpenRouter API timeout"

\* The seeds for which the mock scorer's random numbers are tabulated.
MockSeeds == 0..(Len(SinFrac) - 4)

\* C4: in every 200 response the four score fields are numbers in [0, 10],
\* whichever tier produced them, and the mock scorer yields values in
\* [0, 10] in every time bucket.
C4_ScoresInRange ==
  /\ Answered =>
       \A k \in Range(requiredKeys) : response.body.scores.val[k] \in 0..100
  /\ \A seed \in MockSeeds :
       \A k \in Range(requiredKeys) :
         getMockScores(seed * MOCK_BUCKET_MS).val[k] \in 0..100

\* The Primary tier answered with scores at both ends of the range.
C4_Witness ==
  /\ Answered
  /\ producedBy = "Primary"
  /\ response.body.scores.val[K_clarity] = 0
  /\ response.body.scores.val[K_originality] = 100

\* JSON.parse of the text of a number with at most one decimal, in tenths.
DigitValue(c) == (CHOOSE i \in 1..10 : Digits[i] = c) - 1

RECURSIVE TextToNat(_)
TextToNat(text) ==
  IF text = <<>> THEN 0
  ELSE 10 * TextToNat(SubSeq(text, 1, Len(text) - 1))
         + DigitValue(text[Len(text)])

ParseJsonNumber(text) ==
  LET unsigned(t) ==
        IF \E i \in 1..Len(t) : t[i] = "."
          THEN LET dot == CHOOSE i \in 1..Len(t) : t[i] = "."
               IN 10 * TextToNat(SubSeq(t, 1, dot - 1))
                    + TextToNat(SubSeq(t, dot + 1, Len(t)))
          ELSE 10 * TextToNat(t)
  IN IF text[1] = "-" THEN 0 - unsigned(Tail(text)) ELSE unsigned(text)

\* The scores as the client reads them from the JSON of the response body.
ScoresReadByClient(scores) ==
  [keys |-> scores.keys,
   val |-> [k \in DOMAIN scores.val |-> ParseJsonNumber(JsonNumber(scores.val[k]))]]

\* C5: in every 200 response the receipt is generateReceipt over the
\* ciphertext text of the request and the model, the timestamp and the scores
\* of the response, so the client can recompute it.
C5_ReceiptRecomputable ==
  Answered =>
    response.body.receipt =
      generateReceipt(Fields["ciphertext"].s, response.body.model,
                      response.body.timestamp,
                      ScoresReadByClient(response.body.scores))

\* A request that named its own model was answered.
C5_Witness ==
  /\ Answered
  /\ response.body.model = CustomModel
  /\ response.body.receipt =
       generateReceipt(Fields["ciphertext"].s, CustomModel,
                       response.body.timestamp, response.body.scores)

\* The envelope of the request was altered on its way: a byte of the
\* ciphertext or of its tag, the key or the IV.
Altered == request.origin.how.kind \in {"flip", "key", "iv", "shortkey", "shortiv"}

\* C8: decryption fails closed: an envelope with an altered ciphertext or tag
\* byte, or with another key or IV, makes decryptPitchData throw and return
\* no plaintext, and the request is answered 400.
C8_FailsClosed ==
  /\ (pc = "body" /\ Altered) => ~Decrypted.ok /\ Decrypted.text = <<>>
  /\ (Responded /\ Altered) =>
       /\ response = ErrorResponse(400, "Failed to decrypt pitch data")
       /\ pitchText = <<>>
       /\ sanitizedPitch = <<>>
       /\ sent = <<>>

\* A request whose tag had its last byte altered was answered 400.
C8_Witness ==
  /\ Responded
  /\ request.origin.how.kind = "flip"
  /\ request.origin.how.at =
       Len(TextEncoderEncode(request.origin.pitch)) + TAG_LENGTH
  /\ response.status = 400

\* The printable ASCII characters from the space (code unit 32) to the
\* underscore (95), and from a (97) to the tilde (126).
AsciiLow ==
  << " ", "!", "\"", "#", "$", "%", "&", "'", "(", ")", "*", "+", ",", "-",
     ".", "/", "0", "1", "2", "3", "4", "5", "6", "7", "8", "9", ":", ";",
     "<", "=", ">", "?", "@", "A", "B", "C", "D", "E", "F", "G", "H", "I",
     "J", "K", "L", "M", "N", "O", "P", "Q", "R", "S", "T", "U", "V", "W",
     "X", "Y", "Z", "[", "\\", "]", "^", "_" >>
AsciiHigh ==
  << "a", "b", "c", "d", "e", "f", "g", "h", "i", "j", "k", "l", "m", "n",
     "o", "p", "q", "r", "s", "t", "u", "v", "w", "x", "y", "z", "{", "|",
     "}", "~" >>

CharCodes ==
  [c \in Range(AsciiLow) \cup Range(AsciiHigh) |->
     IF c \in Range(AsciiLow)
       THEN 31 + CHOOSE i \in 1..Len(AsciiLow) : AsciiLow[i] = c
       ELSE 96 + CHOOSE i \in 1..Len(AsciiHigh) : AsciiHigh[i] = c]

\* The code units of a wire text.
CodeUnits(text) == Computed([i \in 1..Len(text) |-> CharCodes[text[i]]])

\* What the request must not give away: the plaintext as sent, as decrypted
\* and as sanitized, the key and the IV as sent.
Secrets ==
  ({request.origin.pitch, pitchText, sanitizedPitch,
    CodeUnits(arrayBufferToBase64(request.origin.key)),
    CodeUnits(arrayBufferToBase64(request.origin.iv))}
     \cup (IF HasRequiredFields /\ FieldsAreStrings
             THEN {CodeUnits(Fields["aes_key"].s), CodeUnits(Fields["iv"].s)}
             ELSE {}))
    \ {<<>>}

\* A text of code units contains one of the secrets.
Discloses(units) == \E secret \in Secrets : IsSubstring(secret, units)

\* The messages of the error responses.
ErrorMessages ==
  {"Invalid JSON in request body", "Missing required encryption parameters",
   "Invalid base64 encoding", "Failed to decrypt pitch data",
   "Internal server error"}

\* C9: the body of every response carries neither the plaintext nor the key
\* nor the IV of the request: an error body is one of the fixed messages, a
\* 200 body has the scores, the receipt, the timestamp and the model and
\* nothing else, and apart from the model none of its texts contains the
\* plaintext, the key or the IV.
C9_BodyDisclosesNothing ==
  Responded =>
    IF response.status = 200
      THEN /\ DOMAIN response.body = {"scores", "receipt", "timestamp", "model"}
           /\ CompleteScoreSet(response.body.scores)
           /\ DOMAIN response.body.receipt = {"sha256"}
           /\ ~Discloses(CodeUnits(response.body.timestamp))
           /\ \A k \in Range(requiredKeys) :
                /\ ~Discloses(CodeUnits(k))
                /\ ~Discloses(CodeUnits(JsonNumber(response.body.scores.val[k])))
      ELSE /\ DOMAIN response.body = {"error"}
           /\ response.body.error \in ErrorMessages

\* A valid request was answered 200 with the scores of the Primary tier, to
\* which its pitch had been sent.
C9_Witness ==
  /\ Answered
  /\ producedBy = "Primary"
  /\ sent # <<>>
  /\ sent[1].content = request.origin.pitch
  /\ response.body.scores.val[K_clarity] = 85
  /\ now = ClockReading(1)

\* The text a console call writes from a value of the upstream reply.
Interpolated(entry) ==
  IF "score" \in DOMAIN entry.arg /\ entry.arg.score.t = "string"
    THEN entry.arg.score.s
    ELSE <<>>

\* C10: on every path of a request nothing passed to a logging call contains
\* the decrypted plaintext, the key or the IV.
C10_NothingSecretLogged ==
  \A i \in 1..Len(log) : ~Discloses(Interpolated(log[i]))

(***************************************************************************)
(* Properties of generateReceipt                                           *)
(***************************************************************************)
\* C6: two calls of generateReceipt with the same four arguments return the
\* same receipt, and two calls that differ in exactly one argument return
\* different receipts.
C6_ReceiptInjective ==
  receipts.pc = "done" =>
    /\ Differing(receipts.a, receipts.b) = {} => receipts.ra = receipts.rb
    /\ Cardinality(Differing(receipts.a, receipts.b)) = 1 =>
         receipts.ra # receipts.rb

\* Two calls that differ by 0.1 in the clarity score returned different
\* receipts.
C6_Witness ==
  /\ receipts.pc = "done"
  /\ Differing(receipts.a, receipts.b) = {"scores"}
  /\ receipts.b.scores.val[K_clarity] = receipts.a.scores.val[K_clarity] + 1
  /\ receipts.ra # receipts.rb

\* C26: any two different tuples (ciphertext text, model string, timestamp,
\* scores) the handler can pass to generateReceipt are hashed as different
\* delimited strings, so they get different receipts.
C26_ReceiptBindsTuple ==
  (receipts.pc = "done" /\ receipts.a # receipts.b) =>
    receipts.ra # receipts.rb

(***************************************************************************)
(* Properties of encryptPitch and decryptPitchData                         *)
(***************************************************************************)
\* The pitch has a length the server accepts.
AcceptedLength ==
  Len(codec.pitch) >= MIN_PITCH_LENGTH /\ Len(codec.pitch) <= MAX_PITCH_LENGTH

\* C7 as stated: for every plaintext of 50 to 10000 characters the server
\* decrypts the client's envelope to exactly that plaintext.
C7_RoundTripAnyText ==
  (codec.pc = "opened" /\ AcceptedLength) =>
    codec.result.ok /\ codec.result.text = codec.pitch

\* C7 amended: for every well-formed plaintext of 50 to 10000 characters the
\* server decrypts the client's envelope to exactly that plaintext, and the
\* envelope's ciphertext is the encrypted UTF-8 bytes followed by the 16
\* bytes of the tag.
C7_RoundTripWellFormed ==
  (codec.pc = "opened" /\ AcceptedLength /\ WellFormed(codec.pitch)) =>
    /\ codec.result.ok
    /\ codec.result.text = codec.pitch
    /\ Len(BufferFromBase64(codec.envelope.encryptedData)) =
         Len(TextEncoderEncode(codec.pitch)) + TAG_LENGTH

\* The pitch of the greatest length, with characters outside ASCII, came
\* back as it was sent.
C7_Witness ==
  /\ codec.pc = "opened"
  /\ codec.pitch = LongPitch
  /\ codec.result.ok
  /\ codec.result.text = LongPitch

(***************************************************************************)
(* Memory hygiene of the handler                                           *)
(***************************************************************************)
\* A buffer that was overwritten holds nothing but zero bytes.
Cleared(buffer) == \A i \in 1..Len(buffer) : buffer[i] = 0

\* C11: when the handler is about to return, on every exit path, the buffers
\* that held the plaintext and the key have been cleared.
C11_BuffersCleared ==
  Responded => /\ Cleared(keyBuffer)
               /\ Cleared(pitchText)
               /\ Cleared(sanitizedPitch)

(***************************************************************************)
(* Error handling of the handler                                           *)
(***************************************************************************)
\* C12: a request whose body is no JSON, or is a JSON value that does not
\* carry ciphertext, aes_key and iv as strings, is answered with status 400
\* and never with 500.
C12_MalformedIs400 ==
  (Responded /\ ~(HasRequiredFields /\ FieldsAreStrings)) =>
    response.status = 400

\* The decoded key or the decoded IV of the request has a wrong length.
DecodedKey == BufferFromBase64(Fields["aes_key"].s)
DecodedIv == BufferFromBase64(Fields["iv"].s)
WrongLengths ==
  /\ HasRequiredFields
  /\ FieldsAreStrings
  /\ Len(DecodedKey) # KEY_LENGTH \/ Len(DecodedIv) # IV_LENGTH

\* C13: a request whose decoded key is not 32 bytes long, or whose decoded IV
\* is not 12 bytes long, is answered 400 by the length check itself: what
\* decryptPitchData threw is the length error, no plaintext was produced and
\* nothing was analyzed.
C13_LengthsCheckedFirst ==
  (Responded /\ WrongLengths) =>
    /\ response = ErrorResponse(400, "Failed to decrypt pitch data")
    /\ log = <<LogEntry("Decryption failed:",
                        ErrorArg(IF Len(DecodedKey) # KEY_LENGTH
                                   THEN "Invalid key length"
                                   ELSE "Invalid IV length"))>>
    /\ pitchText = <<>>
    /\ sent = <<>>
    /\ tiers = <<>>

\* A key of 16 bytes is refused by the length check.
C13_Witness ==
  /\ Responded
  /\ request.origin.how.kind = "shortkey"
  /\ Len(DecodedKey) = 16
  /\ response.status = 400
  /\ log[1].arg.message = "Invalid key length"

\* The request carries the untouched envelope of a pitch whose length is
\* outside the bounds.
OutOfBounds ==
  /\ request.origin.how = Untouched
  /\ \/ Len(request.origin.pitch) < MIN_PITCH_LENGTH
     \/ Len(request.origin.pitch) > MAX_PITCH_LENGTH

\* C14: a request whose decrypted content has fewer than 50 or more than
\* 10,000 characters is answered with status 400 and is never scored.
C14_OutOfBoundsRejected ==
  (Responded /\ OutOfBounds) =>
    /\ response.status = 400
    /\ sent = <<>>
    /\ producedBy = "none"

\* The class of a request's failure, read off the body alone: what it lacks
\* to be an envelope, not what its fields contain.
FailureClass ==
  IF ~request.body.json THEN "json"
  ELSE IF request.body.value.t \notin {"object", "array"} THEN "internal"
  ELSE IF ~HasRequiredFields THEN "fields"
  ELSE IF ~FieldsAreStrings THEN "encoding"
  ELSE "decryption"

\* The error response of each class.
ClassResponse(class) ==
  CASE class = "json" -> ErrorResponse(400, "Invalid JSON in request body")
    [] class = "internal" -> ErrorResponse(500, "Internal server error")
    [] class = "fields" ->
         ErrorResponse(400, "Missing required encryption parameters")
    [] class = "encoding" -> ErrorResponse(400, "Invalid base64 encoding")
    [] class = "decryption" ->
         ErrorResponse(400, "Failed to decrypt pitch data")

\* C15: every error response is the constant response of the request's
\* failure class; requests that fail in the same class get the same body
\* whatever their plaintext, key, IV and ciphertext, and no message of a
\* caught error is copied into a body.
C15_ErrorBodyByClass ==
  (Responded /\ response.status # 200) =>
    response = ClassResponse(FailureClass)

\* An envelope with a flipped tag byte gets the constant decryption message,
\* while the error that was caught and logged is the authentication failure.
C15_Witness ==
  /\ Responded
  /\ request.origin.how.kind = "flip"
  /\ response.body = [error |-> "Failed to decrypt pitch data"]
  /\ log[1].arg.message = "Unsupported state or unable to authenticate data"

(***************************************************************************)
(* The timeout of the Primary call                                         *)
(***************************************************************************)
\* The Primary call is under way: its reply is not yet received and parsed.
CallPending == pc \in {"fetching", "reading"}

\* C16: as long as the Primary call has not completed, before the response
\* headers arrive as well as while the body is read, its 30-second timeout is
\* armed, so that its expiry abandons the call and the handler goes on to
\* the next tier.
C16_TimeoutCoversCall ==
  CallPending => timerDeadline # NoTimer

(***************************************************************************)
(* Requests handled concurrently                                           *)
(***************************************************************************)
\* body.model || 'mistralai/mistral-small-2409' of a request.
ModelOf(r) ==
  IF "model" \in DOMAIN r.body.value.fields
       /\ Truthy(r.body.value.fields["model"])
    THEN r.body.value.fields["model"].s
    ELSE PRIMARY_MODEL

\* The response POST gives to request r when it answers at clock reading c
\* with the given scores (lines 508-523).
SoloAnswer(r, c, scores) ==
  [status |-> 200,
   body |-> [scores |-> scores,
             receipt |-> generateReceipt(r.body.value.fields["ciphertext"].s,
                                         ModelOf(r), NatToText(c \div 1000),
                                         scores),
             timestamp |-> NatToText(c \div 1000), model |-> ModelOf(r)]]

\* The scores analyzeWithMistral can return for a pitch at clock reading c,
\* over all the replies of the upstream.
SoloScores(pitch, c) ==
  {getMockScores(c)}
    \cup {InterpretData(data, c).scores : data \in UpstreamData(pitch)}

\* The response is one that request r gets at clock reading c when it is
\* handled alone.
SoloResponse(r, c) ==
  IF DecryptedOf[r].ok
    THEN /\ response.status = 200
         /\ response.body.timestamp = NatToText(c \div 1000)
         /\ response.body.scores
              \in SoloScores(sanitizeInput(DecryptedOf[r].text), c)
         /\ response = SoloAnswer(r, c, response.body.scores)
    ELSE response = ErrorResponse(400, "Failed to decrypt pitch data")

\* C17: whatever the other call does in between, the response of a call is
\* one that the same request gets when handled alone, at a reading the
\* clock has shown and with a reply of the upstream.
C17_ResponseAsIfAlone ==
  Responded =>
    \E k \in 0..MaxTicks :
      ClockReading(k) <= now /\ SoloResponse(asked, ClockReading(k))

\* One call has sent its pitch upstream and waits for the reply; the other,
\* accepted after it for another request, has already answered.
C17_Witness ==
  /\ Responded
  /\ response.status = 200
  /\ parked.pc = "reading"
  /\ parked.asked # asked
  /\ parked.asked.origin.pitch # asked.origin.pitch
  /\ response.body.model = CustomModel

(***************************************************************************)
(* The receipt and the order of the score fields                           *)
(***************************************************************************)
\* C18: two calls of generateReceipt with the same ciphertext, model and
\* timestamp and with scores that have the same four values, inserted in
\* whatever order, return the same receipt.
C18_KeyOrderIrrelevant ==
  (/\ receipts.pc = "done"
   /\ Differing(receipts.a, receipts.b) \subseteq {"scores"}
   /\ receipts.a.scores.val = receipts.b.scores.val) =>
    receipts.ra = receipts.rb

\* The scores of the second call were built in the reverse order of the
\* first; the receipts are the same.
C18_Witness ==
  /\ receipts.pc = "done"
  /\ receipts.a.scores.keys = requiredKeys
  /\ receipts.b.scores.keys =
       <<K_market_fit, K_team_strength, K_originality, K_clarity>>
  /\ receipts.a.scores.val = receipts.b.scores.val
  /\ receipts.ra = receipts.rb

(***************************************************************************)
(* Freshness of keys and IVs on the client                                 *)
(***************************************************************************)
\* The envelopes the calls have returned, in the order of the calls.
Envelopes ==
  SelectSeq(produced.calls, LAMBDA call : call.ok)

C20_HealthReportsCredential ==
  pc = "health" =>
    (response.body.openrouter_configured <=> envApiKey # "")

(***************************************************************************)
(* Order of validation and analysis                                        *)
(***************************************************************************)
\* C21: an upstream call has been made only for a request whose fields
\* decoded, whose envelope decrypted and whose content passed the length
\* check of decryptPitchData; a request answered 400 has caused no upstream
\* call, and its response carries neither a timestamp nor a receipt.
C21_ErrorsAreTerminal ==
  /\ (sent # <<>> \/ tiers # <<>>) =>
       /\ HasRequiredFields
       /\ FieldsAreStrings
       /\ Decrypted.ok
       /\ pitchText = Decrypted.text
       /\ Len(pitchText) >= MIN_PITCH_LENGTH
  /\ (Responded /\ response.status = 400) =>
       /\ sent = <<>>
       /\ tiers = <<>>
       /\ producedBy = "none"
       /\ DOMAIN response.body = {"error"}

\* The untouched envelope of a 49-character pitch: decryptPitchData threw on
\* the length, the answer is 400 and nothing was sent.
C21_Witness ==
  /\ Responded
  /\ request.origin.pitch = ShortPitch
  /\ request.origin.how = Untouched
  /\ response.status = 400
  /\ log[1].arg.message = "Pitch content too short"
  /\ sent = <<>>

(***************************************************************************)
(* The text handed to the analysis                                         *)
(***************************************************************************)
\* C22: the text sent upstream for analysis, the result of sanitizeInput on
\* a plaintext the handler did not reject, has at least 50 and at most
\* 10,000 characters.
C22_AnalyzedLengthInBounds ==
  \A i \in 1..Len(sent) :
    /\ Len(sent[i].content) >= MIN_PITCH_LENGTH
    /\ Len(sent[i].content) <= MAX_PITCH_LENGTH

(***************************************************************************)
(* Properties of sanitizeInput                                             *)
(***************************************************************************)
\* The text without the characters <, >, &, double quote and single quote,
\* and its prefix of at most 10,000 characters.
Stripped(text) == SelectSeq(text, LAMBDA c : c \notin {60, 62, 38, 34, 39})

KeptPrefix(text) ==
  IF Len(Stripped(text)) > MAX_PITCH_LENGTH
    THEN SubSeq(Stripped(text), 1, MAX_PITCH_LENGTH)
    ELSE Stripped(text)

NoUnsafeChar(text) == \A i \in 1..Len(text) : text[i] \notin {60, 62, 38, 34, 39}

\* out is whole with lead characters cut off its start and the rest cut off
\* its end, all of them white space, and out has no white space at its ends.
TrimmedOf(out, whole) ==
  /\ Len(out) <= Len(whole)
  /\ \E lead \in 0..(Len(whole) - Len(out)) :
       /\ out = SubSeq(whole, lead + 1, lead + Len(out))
       /\ \A i \in 1..lead : whole[i] \in WhiteSpace
       /\ \A i \in (lead + Len(out) + 1)..Len(whole) : whole[i] \in WhiteSpace
  /\ out # <<>> => out[1] \notin WhiteSpace /\ out[Len(out)] \notin WhiteSpace

\* C23 as stated: the output of sanitizeInput holds none of the five
\* characters and is the kept prefix of the input with every other
\* character preserved in order.
C23_StripsAndPreserves ==
  codec.pc = "once" =>
    /\ NoUnsafeChar(codec.once)
    /\ codec.once = KeptPrefix(codec.text)

\* C23 amended: the output of sanitizeInput holds none of the five
\* characters; when more than 10,000 characters remain after stripping it
\* is their first 10,000 in order, and otherwise it is the remaining
\* characters in order less the white space at both ends; the call logs
\* nothing, sends nothing and answers nothing.
C23_StripsTrimsAndPreserves ==
  codec.pc = "once" =>
    /\ NoUnsafeChar(codec.once)
    /\ IF Len(Stripped(codec.text)) > MAX_PITCH_LENGTH
         THEN codec.once = KeptPrefix(codec.text)
         ELSE TrimmedOf(codec.once, Stripped(codec.text))
    /\ log = <<>> /\ sent = <<>> /\ response = NoResponse

C23_Witness ==
  /\ codec.pc = "once"
  /\ codec.text = MixedPitch
  /\ Len(codec.once) = 48

\* C28: sanitizeInput is idempotent: sanitizing a sanitized text returns
\* it unchanged, also when the text was cut at 10,000 characters with white
\* space at its start or where it was cut.
C28_SanitizeIdempotent ==
  codec.pc = "twice" => codec.twice = codec.once

(***************************************************************************)
(* Properties of the mock scorer                                           *)
(***************************************************************************)
\* The scores of the hour with the given number.
BucketScores(bucket) == getMockScores(bucket * MOCK_BUCKET_MS)

\* C24: every call of the mock scorer succeeds and returns the scores of
\* the hour floor(now / 3600000) it is made in, whatever the request, the
\* earlier calls and the upstream outcome were: the step that calls it
\* answers 200 with the scores of that hour.
C24_MockScoresByBucket ==
  [][tiers' = Append(tiers, "Mock") =>
       /\ pc' = "responded"
       /\ producedBy' = "Mock"
       /\ response'.status = 200
       /\ response'.body.scores = BucketScores(now \div MOCK_BUCKET_MS)]_vars

C24_Witness ==
  /\ Answered
  /\ producedBy = "Mock"
  /\ response.body.timestamp = NatToText(1)
  /\ response.body.scores = BucketScores(0)
  /\ Len(tiers) = 2

\* C25: when the environment configures no OPENROUTER_API_KEY,
\* analyzeWithMistral makes no upstream call, so the sanitized pitch is sent
\* nowhere, and every answer carries the mock scores.
C25_NoKeyNoUpstreamCall ==
  envApiKey = "" =>
    /\ sent = <<>>
    /\ Answered => producedBy = "Mock"

(***************************************************************************)
(* Properties of the first version of the route                            *)
(***************************************************************************)
\* What the client holds after a call: the values it sent, the default
\* model name of the documentation, and the scores it received, serialized
\* as they came.
ClientHolds ==
  {legacy.body.encrypted_pitch, legacy.body.encryption_key,
   legacy.body.encryption_iv, legacy.body.model, DEFAULT_MODEL_V1,
   JsonStringify(legacy.response.body.scores,
                 legacy.response.body.scores.keys)}

\* C27: after a 200 answer of the handler that takes {encrypted_pitch,
\* encryption_key, encryption_iv}, the client holds every input of the
\* receipt hash: the receipt is the hash of the ciphertext text, a model
\* name, a timestamp and a scores text that are all among the values of its
\* request and of the response.
C27_ClientCanRecompute ==
  (legacy.pc = "responded" /\ legacy.response.status = 200) =>
    \E model \in ClientHolds, timestamp \in ClientHolds,
       scores \in ClientHolds :
      legacy.response.body.receipt =
        generateReceiptV1(legacy.body.encrypted_pitch, model, timestamp,
                          scores)

(***************************************************************************)
(* Properties of BackupService                                             *)
(***************************************************************************)
\* C29: after any sequence of createBackup, deleteBackup, importBackup and
\* clearAllBackups calls, also ones that throw part-way on a localStorage
\* write, the ids listed under 'pitchguard_backups' are the ids that have
\* data under 'pitchguard_backup_<id>'.
C29_ListMatchesData ==
  storage.pc = "ready" => Range(getBackupList) = storage.data

(***************************************************************************)
(* Properties of RealtimeService                                           *)
(***************************************************************************)
\* The callbacks subscribed for an analysis, and the last of them.
SubscribedFor(analysisId) ==
  {c \in 1..Len(realtime.returned) :
     realtime.returned[c].analysisId = analysisId}

LastFor(analysisId) ==
  CHOOSE c \in SubscribedFor(analysisId) :
    \A d \in SubscribedFor(analysisId) : d <= c

\* C30: an unsubscribe function removes only the callback of its own
\* subscribe call: the callback subscribed last for an analysisId stays
\* registered, and so keeps receiving the updates, until its own
\* unsubscribe function is called.
C30_UnsubscribeOwnCallbackOnly ==
  realtime.pc = "ready" =>
    \A analysisId \in AnalysisIds :
      (/\ SubscribedFor(analysisId) # {}
       /\ ~realtime.returned[LastFor(analysisId)].called) =>
        realtime.analysisSubscriptions[analysisId] = LastFor(analysisId)
====
